---- MODULE Spec2Model ----
(***************************************************************************)
(* Model of the website scanner server: the job queue manager              *)
(* (server/src/server.ts), the scan pipeline it drives                     *)
(* (server/src/scanner.ts, runScan) and the crawler                        *)
(* (server/src/crawler.ts, crawlSite).                                     *)
(*                                                                         *)
(* server.ts holds two versions of the queue manager: the one with         *)
(* MAX_CONCURRENT_SCANS slots (lines 1-233, specification Spec) and the    *)
(* single-slot one guarded by isScanning (lines 235-447, specification     *)
(* SpecSingle).  Both drive the same runScan.                              *)
(*                                                                         *)
(* Node runs every handler to completion: an HTTP handler, or the          *)
(* continuation of an await together with the promise callbacks it         *)
(* triggers, is one action.                                                *)
(***************************************************************************)
EXTENDS Integers, Sequences, FiniteSets, TLC

\* ---------------------------------------------------------------- bounds
\* Accepted submissions explored by Spec and FairSpec (queue behaviour: more
\* jobs than slots, every site one page, the default page limit).
MaxJobs == 4
\* Accepted submissions explored by SpecPages (pipeline behaviour: sites of
\* several pages, page limits given and absent).
MaxPageJobs == 2
\* Accepted submissions explored by SpecSingle (the single-slot version).
MaxSingleJobs == 3
\* Largest reading of Date.now() at which the clock still ticks by itself.
MaxClock == 4
\* Largest number of same-host pages a crawled site exposes in SpecPages.
MaxSitePages == 2

\* ------------------------------------------------------ program constants
MAX_CONCURRENT_SCANS == 3
MAX_DURATION_SAMPLES == 10
DEFAULT_SCAN_DURATION == 60000
\* pageLimit || 20
DefaultPageLimit == 20
\* crawlSite(startUrl, maxDepth = 3, maxPages = 20)
DefaultMaxDepth == 3
DefaultMaxPages == 20
\* an optional number field that is undefined
Undefined == -1
\* report: null
Null == [null |-> TRUE]

Max(a, b) == IF a >= b THEN a ELSE b
Min(a, b) == IF a <= b THEN a ELSE b

\* Math.round(n / d) for n >= 0, d > 0: the nearest integer, halves rounded up.
MathRound(n, d) == (2 * n + d) \div (2 * d)

RECURSIVE SumSeq(_)
SumSeq(s) == IF s = <<>> THEN 0 ELSE Head(s) + SumSeq(Tail(s))

\* A JavaScript number that is not negative: an IEEE 754 double, held exactly
\* as a count of a fixed power of two in three limbs <<h, m, l>> to the base
\* 2^21, standing for (h * 2^42 + m * 2^21 + l) units.  The scorer counts in
\* units of 2^-56 (numbers below 128), the progress report in units of 2^-63.
LimbBase == 2 ^ 21

\* The limbs with their carries taken up.
Carried(h, m, l) ==
    LET m1 == m + (l \div LimbBase)
    IN <<h + (m1 \div LimbBase), m1 % LimbBase, l % LimbBase>>

RECURSIVE BitLength(_)
BitLength(n) == IF n <= 0 THEN 0 ELSE 1 + BitLength(n \div 2)

\* The double nearest to an exact result, ties to the even mantissa: of the
\* 42 + BitLength(h) bits of the count the upper 53 are kept.
RoundToDouble(x) ==
    LET drop == BitLength(x[1]) - 11
        q == 2 ^ drop
        r == x[3] % q
        up == r > q \div 2 \/ (r = q \div 2 /\ (x[3] \div q) % 2 = 1)
    IN IF drop <= 0 THEN x
       ELSE Carried(x[1], x[2], (x[3] - r) + (IF up THEN q ELSE 0))

\* score * weight, score an integer in 0 .. 100.
FloatTimes(n, w) == RoundToDouble(Carried(n * w[1], n * w[2], n * w[3]))

\* x + y
FloatPlus(x, y) == RoundToDouble(Carried(x[1] + y[1], x[2] + y[2], x[3] + y[3]))

\* k / n for 0 <= k < n < 1024: the double nearest to the quotient, in units of
\* 2^-63.  The limbs are the first three digits of the quotient to the base
\* 2^21; what the division leaves over only matters for breaking a tie.
FloatQuotient(k, n) ==
    LET d1 == (k * LimbBase) \div n
        r1 == (k * LimbBase) % n
        d2 == (r1 * LimbBase) \div n
        r2 == (r1 * LimbBase) % n
        d3 == (r2 * LimbBase) \div n
        r3 == (r2 * LimbBase) % n
    IN RoundToDouble(<<d1, d2, IF r3 # 0 /\ d3 % 2 = 0 THEN d3 + 1 ELSE d3>>)

\* Math.floor(x), x in units of 2^-63.
MathFloor(x) == x[1] \div LimbBase

\* The same numbers where a result is divided: a double m * 2^e with the
\* mantissa m a natural number of at most 54 bits, written in digits to the
\* base 2^15, the lowest first.
DigitBase == 2 ^ 15

Digits(n) ==
    <<n % DigitBase, (n \div DigitBase) % DigitBase,
      n \div (DigitBase * DigitBase)>>

RECURSIVE ValueOf(_)
ValueOf(x) == IF x = <<>> THEN 0 ELSE Head(x) + DigitBase * ValueOf(Tail(x))

\* x * c + carry for c < 2^15
RECURSIVE TimesCarry(_, _, _)
TimesCarry(x, c, carry) ==
    IF x = <<>> THEN <<carry>>
    ELSE LET t == Head(x) * c + carry
         IN <<t % DigitBase>> \o TimesCarry(Tail(x), c, t \div DigitBase)

\* x + carry
RECURSIVE AddCarry(_, _)
AddCarry(x, carry) ==
    IF x = <<>> THEN <<carry>>
    ELSE LET t == Head(x) + carry
         IN <<t % DigitBase>> \o AddCarry(Tail(x), t \div DigitBase)

\* Quotient and remainder of x by d < 2^16, from the highest digit down.
RECURSIVE DivSmall(_, _)
DivSmall(x, d) ==
    IF x = <<>> THEN [q |-> <<>>, r |-> 0]
    ELSE LET upper == DivSmall(Tail(x), d)
             cur == upper.r * DigitBase + Head(x)
         IN [q |-> <<cur \div d>> \o upper.q, r |-> cur % d]

RECURSIVE DigitsBitLength(_)
DigitsBitLength(x) ==
    IF x = <<>> THEN 0
    ELSE LET upper == DigitsBitLength(Tail(x))
         IN IF upper > 0 THEN upper + 15 ELSE BitLength(Head(x))

\* x without its lowest b bits, and whether a bit that was 1 got lost.
RECURSIVE ShiftRight(_, _, _)
ShiftRight(x, b, lost) ==
    IF b = 0 THEN [q |-> x, lost |-> lost]
    ELSE IF b >= 15
    THEN ShiftRight(IF Len(x) > 1 THEN Tail(x) ELSE <<0>>, b - 15,
                    lost \/ Head(x) # 0)
    ELSE LET d == DivSmall(x, 2 ^ b)
         IN [q |-> d.q, lost |-> lost \/ d.r # 0]

\* The double nearest to x * 2^e, ties to the even mantissa; more says that
\* the exact result is a little more than x * 2^e (a division left a
\* remainder), in which case x has more than 53 bits.
RoundToNearest(x, e, more) ==
    LET drop == DigitsBitLength(x) - 53
        s == ShiftRight(x, drop - 1, FALSE)
        m == DivSmall(s.q, 2)
        up == m.r = 1 /\ (s.lost \/ more \/ Head(m.q) % 2 = 1)
    IN IF drop <= 0 THEN [m |-> x, e |-> e]
       ELSE [m |-> IF up THEN AddCarry(m.q, 1) ELSE m.q, e |-> e + drop]

\* An integer below 2^31 as a number.
Number(n) == [m |-> Digits(n), e |-> 0]

\* a / d for an integer d < 2^16: the quotient is taken to 75 more bits.
FloatOverInt(a, d) ==
    LET division == DivSmall(<<0, 0, 0, 0, 0>> \o a.m, d)
    IN RoundToNearest(division.q, a.e - 75, division.r # 0)

\* a * p for an integer p < 2^15
FloatTimesInt(a, p) == RoundToNearest(TimesCarry(a.m, p, 0), a.e, FALSE)

\* Math.round(a): the nearest integer, a half going up.
MathRoundFloat(a) ==
    IF a.e >= 0 THEN ValueOf(a.m) * (2 ^ a.e)
    ELSE ValueOf(DivSmall(AddCarry(ShiftRight(a.m, (-a.e) - 1, FALSE).q, 1), 2).q)

VARIABLES
    now,            \* the reading of Date.now()
    scans,          \* Map<string, ScanState>: scanId -> record
    scanQueue,      \* string[]: the ids waiting, head first
    activeScans,    \* number of runScan calls not yet settled (multi-slot)
    isScanning,     \* the single-slot version's flag
    scanDurations,  \* number[]: durations of the last completed scans
    runs,           \* the runScan calls made so far, in promotion order
    stored,         \* the record the last POST /api/scan wrote with scans.set
    response,       \* the last HTTP response of POST /api/scan
    crawl,          \* a call of crawlSite: its arguments and where it stands
    visited,        \* its Map visited, in insertion order: <<url, referrer>>
    crawlQueue,     \* its queue of {url, depth, referrer}
    site,           \* the links of each document the browser has loaded
    fetched,        \* the navigations page.goto made, in order, each with
                    \* the depth of its url and whether its links were read
    issues,         \* Issue[]: the list calculateScore is called with
    score,          \* the ScoreReport calculateScore returned
    pages,          \* a call of runScan: the list crawlSite returned to it
    audit,          \* where its loop over the pages stands
    scanIssues,     \* its list scanIssues
    pageReports,    \* its list pageReports
    event,          \* what the browser last told it: an event of the page
                    \* or the result of an awaited call
    scanReport      \* the report it handed to updateState

serverVars == <<now, scans, scanQueue, activeScans, isScanning, scanDurations,
                runs, stored, response>>

crawlVars == <<crawl, visited, crawlQueue, site, fetched>>

scoreVars == <<issues, score>>

auditVars == <<pages, audit, scanIssues, pageReports, event, scanReport>>

vars == <<serverVars, crawlVars, scoreVars, auditVars>>

\* ------------------------------------------------------------- job store
\* updateState(update): merge into the record if it is (still) in the map.
updateState(s, id, status, message, progress, report) ==
    IF id \in DOMAIN s
    THEN [s EXCEPT ![id] = [@ EXCEPT !.status = status, !.message = message,
                                      !.progress = progress, !.report = report]]
    ELSE s

\* emitProgress(message, progress) of runScan: writes status SCANNING too.
emitProgress(s, id, message, progress) ==
    IF id \in DOMAIN s
    THEN [s EXCEPT ![id] = [@ EXCEPT !.status = "SCANNING", !.message = message,
                                      !.progress = progress]]
    ELSE s

\* A catch handler that leaves the job's state alone.
FailStateDropped(s, id) == s

\* The catch handler's updateState({status: 'FAILED', message}).
FailState(s, id) ==
    IF id \in DOMAIN s
    THEN [s EXCEPT ![id] = [@ EXCEPT !.status = "FAILED",
                                      !.message = "Scan failed due to server error."]]
    ELSE s

getAverageScanDuration(durations) ==
    IF Len(durations) = 0 THEN Number(DEFAULT_SCAN_DURATION)
    ELSE FloatOverInt(Number(SumSeq(durations)), Len(durations))

\* Math.round((position * avgDuration) / (slots * 1000)), in doubles.
EstimatedWaitOf(position, avgDuration, slots) ==
    MathRoundFloat(FloatOverInt(FloatTimesInt(avgDuration, position),
                                slots * 1000))

EstimatedWait(position, durations, slots) ==
    EstimatedWaitOf(position, getAverageScanDuration(durations), slots)

\* Position given to the entry at (0-based) index of the queue, multi-slot.
QueuePositionAt(index) == Max(1, index - (MAX_CONCURRENT_SCANS - 1))

\* updateQueuePositions(): forEach over the queue, index 0 first.
RECURSIVE UpdateFrom(_, _, _, _)
UpdateFrom(s, queue, avgDuration, i) ==
    IF i > Len(queue) THEN s
    ELSE LET scanId == queue[i]
             position == QueuePositionAt(i - 1)
             s1 == IF scanId \in DOMAIN s /\ s[scanId].status = "QUEUED"
                   THEN [s EXCEPT ![scanId] =
                            [@ EXCEPT !.queuePosition = position,
                                      !.estimatedWaitTime =
                                          EstimatedWaitOf(position, avgDuration,
                                                          MAX_CONCURRENT_SCANS)]]
                   ELSE s
         IN UpdateFrom(s1, queue, avgDuration, i + 1)

updateQueuePositions(s, queue, durations) ==
    UpdateFrom(s, queue, getAverageScanDuration(durations), 1)

\* ------------------------------------------------------------- runScan
\* A call of runScan: the job it works on, where it is suspended, when it was
\* started (scanStartTime), the crawler's output size and the loop's state.
NewRun(scanId, t) ==
    [id |-> scanId, pc |-> "crawl", start |-> t, pages |-> 0,
     pagesProcessed |-> 0, pageReports |-> <<>>]

\* runScan up to its first await: two progress reports, then crawlSite.
RunScanStart(s, scanId) ==
    emitProgress(emitProgress(s, scanId, "Starting crawler...", 5),
                 scanId, "Discovering pages...", 10)

\* 20 + Math.floor((pagesProcessed / pages.length) * 70)
PageProgress(pagesProcessed, n) ==
    20 + MathFloor(FloatTimes(70, FloatQuotient(pagesProcessed, n)))

\* A slot counted free one promotion too late.
SlotFreeOffByOne(active, queue) == active <= MAX_CONCURRENT_SCANS /\ Len(queue) > 0

\* The while loop's condition of processQueue.
SlotFree(active, queue) == active < MAX_CONCURRENT_SCANS /\ Len(queue) > 0

\* A scheduling pass that promotes nothing.
processQueueSkipped(st, durations, t) == st

\* A scheduling pass that promotes the job that was pushed last.
RECURSIVE processQueueFromTail(_, _, _)
processQueueFromTail(st, durations, t) ==
    IF ~SlotFree(st.activeScans, st.scanQueue) THEN st
    ELSE LET scanId == st.scanQueue[Len(st.scanQueue)]
             rest == SubSeq(st.scanQueue, 1, Len(st.scanQueue) - 1)
             s1 == updateQueuePositions(st.scans, rest, durations)
             s2 == updateState(s1, scanId, "SCANNING", "Starting scan...",
                               0, s1[scanId].report)
             s3 == RunScanStart(s2, scanId)
         IN processQueueFromTail([scans |-> s3,
                                  scanQueue |-> rest,
                                  activeScans |-> st.activeScans + 1,
                                  runs |-> Append(st.runs, NewRun(scanId, t))],
                                 durations, t)

\* processQueue(): promote from the head of the queue while a slot is free.
\* st = [scans, scanQueue, activeScans, runs]; t is Date.now().
RECURSIVE processQueue(_, _, _)
processQueue(st, durations, t) ==
    IF ~SlotFree(st.activeScans, st.scanQueue) THEN st
    ELSE LET scanId == Head(st.scanQueue)
             rest == Tail(st.scanQueue)
         IN IF scanId \notin DOMAIN st.scans
            THEN processQueue([st EXCEPT !.scanQueue = rest], durations, t)
            ELSE LET s1 == updateQueuePositions(st.scans, rest, durations)
                     s2 == updateState(s1, scanId, "SCANNING", "Starting scan...",
                                       0, s1[scanId].report)
                     s3 == RunScanStart(s2, scanId)
                 IN processQueue([scans |-> s3,
                                  scanQueue |-> rest,
                                  activeScans |-> st.activeScans + 1,
                                  runs |-> Append(st.runs, NewRun(scanId, t))],
                                 durations, t)

\* ------------------------------------------------------ multi-slot server
\* Accepted submissions so far: each one pushed one id, each promotion moved
\* one id from the queue to a run.
Accepted == Len(runs) + Len(scanQueue)

\* The bodies of POST /api/scan: url and devices, present or missing.
Urls == {"", "https://site.test/"}
DeviceLists == {<<>>, <<"mobile">>}
\* pageLimit of the body: 0 stands for none given.
PageLimits == {0, 1}

ServerInit ==
    /\ now = 1
    /\ scans = <<>>
    /\ scanQueue = <<>>
    /\ activeScans = 0
    /\ isScanning = FALSE
    /\ scanDurations = <<>>
    /\ runs = <<>>
    /\ stored = Null
    /\ response = [code |-> 0]

\* No crawl is looked at.
CrawlIdle ==
    /\ crawl = [pc |-> "idle"]
    /\ visited = <<>>
    /\ crawlQueue = <<>>
    /\ site = <<>>
    /\ fetched = <<>>

\* calculateScore has not returned.
NoScore == [none |-> TRUE]

\* No call of calculateScore is followed.
ScoreIdle ==
    /\ issues = <<>>
    /\ score = NoScore

\* No call of runScan is followed through its pages.
AuditIdle ==
    /\ pages = <<>>
    /\ audit = [pc |-> "idle"]
    /\ scanIssues = <<>>
    /\ pageReports = <<>>
    /\ event = Null
    /\ scanReport = Null

Init == ServerInit /\ CrawlIdle /\ ScoreIdle /\ AuditIdle

BadRequest == [code |-> 400]

\* A submission stored as waiting whatever was decided.
StoredStatusQueued(willStartImmediately) == "QUEUED"

\* The status a submission is stored with (server.ts:170).
StoredStatus(willStartImmediately) ==
    IF willStartImmediately THEN "SCANNING" ELSE "QUEUED"

\* POST /api/scan, lines 147-190.
Submit(url, devices, pageLimit) ==
    /\ IF url = "" \/ devices = <<>>
       THEN /\ response' = BadRequest
            /\ UNCHANGED <<now, scans, scanQueue, activeScans, isScanning,
                           scanDurations, runs, stored, crawlVars, scoreVars, auditVars>>
       ELSE LET scanId == now
                willStartImmediately == activeScans < MAX_CONCURRENT_SCANS
                queuePosition ==
                    IF willStartImmediately THEN Undefined
                    ELSE Max(1, Len(scanQueue) + 1 - activeScans)
                estimatedWait ==
                    IF willStartImmediately THEN Undefined
                    ELSE EstimatedWait(queuePosition, scanDurations,
                                       MAX_CONCURRENT_SCANS)
                rec == [id |-> scanId, url |-> url, devices |-> devices,
                        pageLimit |-> IF pageLimit = 0 THEN DefaultPageLimit
                                      ELSE pageLimit,
                        status |-> StoredStatus(willStartImmediately),
                        progress |-> 0,
                        message |-> IF willStartImmediately
                                    THEN "Starting scan..."
                                    ELSE "Waiting in queue...",
                        report |-> Null,
                        timestamp |-> now,
                        queuePosition |-> queuePosition,
                        estimatedWaitTime |-> estimatedWait]
                st == processQueue([scans |-> (scanId :> rec) @@ scans,
                                    scanQueue |-> Append(scanQueue, scanId),
                                    activeScans |-> activeScans,
                                    runs |-> runs],
                                   scanDurations, now)
            IN /\ scans' = st.scans
               /\ scanQueue' = st.scanQueue
               /\ activeScans' = st.activeScans
               /\ runs' = st.runs
               /\ stored' = rec
               /\ response' = [code |-> 200,
                               message |-> IF willStartImmediately
                                           THEN "Scan starting" ELSE "Scan queued",
                               scanId |-> scanId,
                               queuePosition |-> queuePosition,
                               estimatedWaitTime |-> estimatedWait]
               /\ UNCHANGED <<now, isScanning, scanDurations, crawlVars, scoreVars, auditVars>>

\* Time passes.
Tick ==
    /\ now < MaxClock
    /\ now' = now + 1
    /\ UNCHANGED <<scans, scanQueue, activeScans, isScanning, scanDurations,
                   runs, stored, response, crawlVars, scoreVars, auditVars>>

\* ------------------------------------------------- the steps of a runScan
\* Sizes of the list crawlSite(startUrl) can return for a site of at most
\* sitePages pages: runScan passes neither a depth nor a page limit, so the
\* crawler's defaults apply.
CrawlSizes(sitePages) == 1 .. Min(DefaultMaxPages, sitePages)

\* crawlSite returned n pages (launching a browser and loading the seed takes
\* time: the clock reads later than at promotion); runScan reports 20 and
\* awaits the launch of its own browser.
CrawlDone(r, n) ==
    /\ r \in DOMAIN runs
    /\ runs[r].pc = "crawl"
    /\ now' = Max(now, runs[r].start + 1)
    /\ scans' = emitProgress(scans, runs[r].id, "Found pages.", 20)
    /\ runs' = [runs EXCEPT ![r] = [@ EXCEPT !.pc = "launch", !.pages = n]]
    /\ UNCHANGED <<scanQueue, activeScans, isScanning, scanDurations, stored,
                   response, crawlVars, scoreVars, auditVars>>

\* The top of the for loop over pages: report progress and open the page, or
\* leave the loop and close the browser.
LoopTop(s, run) ==
    IF run.pagesProcessed < run.pages
    THEN [scans |-> emitProgress(s, run.id, "Scanning page...",
                                 PageProgress(run.pagesProcessed, run.pages)),
          run |-> [run EXCEPT !.pc = "page"]]
    ELSE [scans |-> s, run |-> [run EXCEPT !.pc = "close"]]

\* chromium.launch() and browser.newContext() returned.
LaunchDone(r) ==
    /\ r \in DOMAIN runs
    /\ runs[r].pc = "launch"
    /\ LET nxt == LoopTop(scans, runs[r])
       IN /\ scans' = nxt.scans
          /\ runs' = [runs EXCEPT ![r] = nxt.run]
    /\ UNCHANGED <<now, scanQueue, activeScans, isScanning, scanDurations,
                   stored, response, crawlVars, scoreVars, auditVars>>

\* One page audited: its PageReport is pushed, the page closed, the counter
\* incremented, and the loop goes on.
PageDone(r) ==
    /\ r \in DOMAIN runs
    /\ runs[r].pc = "page"
    /\ LET run == runs[r]
           k == run.pagesProcessed + 1
           nxt == LoopTop(scans, [run EXCEPT !.pagesProcessed = k,
                                             !.pageReports = Append(@, k)])
       IN /\ scans' = nxt.scans
          /\ runs' = [runs EXCEPT ![r] = nxt.run]
    /\ UNCHANGED <<now, scanQueue, activeScans, isScanning, scanDurations,
                   stored, response, crawlVars, scoreVars, auditVars>>

\* calculateScore(scanIssues, pageReports), as far as the report's pages go.
FinalReport(run) == [pages |-> run.pageReports]

\* The end of runScan: updateState({status: 'COMPLETE', report, progress: 100}).
CompleteState(s, run) ==
    updateState(s, run.id, "COMPLETE", "Scan Complete", 100, FinalReport(run))

\* A .then callback that never drops a sample.
PushDurationUnbounded(durations, d) == Append(durations, d)

\* The .then callback: push the duration, keep the last MAX_DURATION_SAMPLES.
PushDuration(durations, d) ==
    LET pushed == Append(durations, d)
    IN IF Len(pushed) > MAX_DURATION_SAMPLES THEN Tail(pushed) ELSE pushed

\* A .finally callback that frees the slot and starts no scheduling pass.
FinallyWithoutPass(s, durations) ==
    [scans |-> s, scanQueue |-> scanQueue, activeScans |-> activeScans - 1,
     runs |-> runs]

\* The .finally callback: activeScans--; processQueue().
Finally(s, durations) ==
    processQueue([scans |-> s, scanQueue |-> scanQueue,
                  activeScans |-> activeScans - 1, runs |-> runs],
                 durations, now)

\* The call of runScan behind run r has settled: its promise is resolved or
\* rejected.
\* Its closure (scanStartTime, pages, pageReports) is gone with it.
Settled(st, r, how) ==
    [st.runs EXCEPT ![r] = [id |-> @.id, pc |-> how, start |-> 0, pages |-> 0,
                            pagesProcessed |-> 0, pageReports |-> <<>>]]

Live(run) == run.pc \notin {"resolved", "rejected"}

\* browser.close() returned: runScan resolves, then .then and .finally run.
Complete(r) ==
    /\ r \in DOMAIN runs
    /\ runs[r].pc = "close"
    /\ LET durations == PushDuration(scanDurations, now - runs[r].start)
           st == Finally(CompleteState(scans, runs[r]), durations)
       IN /\ scans' = st.scans
          /\ scanQueue' = st.scanQueue
          /\ activeScans' = st.activeScans
          /\ runs' = Settled(st, r, "resolved")
          /\ scanDurations' = durations
    /\ UNCHANGED <<now, isScanning, stored, response, crawlVars, scoreVars, auditVars>>

\* An awaited call outside the per-page try block threw: runScan rejects, then
\* .catch and .finally run.
Fail(r) ==
    /\ r \in DOMAIN runs
    /\ runs[r].pc \in {"crawl", "launch", "page", "close"}
    /\ LET st == Finally(FailState(scans, runs[r].id), scanDurations)
       IN /\ scans' = st.scans
          /\ scanQueue' = st.scanQueue
          /\ activeScans' = st.activeScans
          /\ runs' = Settled(st, r, "rejected")
    /\ UNCHANGED <<now, isScanning, scanDurations, stored, response, crawlVars, scoreVars, auditVars>>

RunStep(r, sitePages) ==
    \/ \E n \in CrawlSizes(sitePages) : CrawlDone(r, n)
    \/ LaunchDone(r)
    \/ PageDone(r)

Settle(r) == Complete(r) \/ Fail(r)

\* The multi-slot server under maxJobs accepted submissions, page limits
\* drawn from limits and sites of at most sitePages pages.
NextOf(maxJobs, limits, sitePages) ==
    \/ /\ Accepted < maxJobs
       /\ \E url \in Urls, devices \in DeviceLists, pageLimit \in limits :
             Submit(url, devices, pageLimit)
    \/ Tick
    \/ \E r \in 1 .. maxJobs : \E n \in CrawlSizes(sitePages) : CrawlDone(r, n)
    \/ \E r \in 1 .. maxJobs : LaunchDone(r)
    \/ \E r \in 1 .. maxJobs : PageDone(r)
    \/ \E r \in 1 .. maxJobs : Complete(r)
    \/ \E r \in 1 .. maxJobs : Fail(r)

Next == NextOf(MaxJobs, {0}, 1)

Spec == Init /\ [][Next]_vars

\* The multi-slot server as FairSpec explores it: well-formed submissions,
\* and a clock that moves on only as far as crawling takes time.
NextFair ==
    \/ /\ Accepted < MaxJobs
       /\ Submit("https://site.test/", <<"mobile">>, 0)
    \/ \E r \in 1 .. MaxJobs : CrawlDone(r, 1)
    \/ \E r \in 1 .. MaxJobs : LaunchDone(r)
    \/ \E r \in 1 .. MaxJobs : PageDone(r)
    \/ \E r \in 1 .. MaxJobs : Complete(r)
    \/ \E r \in 1 .. MaxJobs : Fail(r)

\* Every awaited browser operation eventually returns or throws.
FairSpec ==
    /\ Init
    /\ [][NextFair]_vars
    /\ \A r \in 1 .. MaxJobs : WF_vars(RunStep(r, 1) \/ Settle(r))

\* The server after earlier jobs have completed, one after the other, each
\* submitted when the one before was done: their records are COMPLETE, their
\* runs resolved, and the buffer holds their durations, oldest first.  The
\* ids of these jobs are clock readings before the reading 1 that the
\* behaviours explored start at.
EarlierJob(i, n) ==
    [id |-> i - n, url |-> "https://site.test/", devices |-> <<"mobile">>,
     pageLimit |-> DefaultPageLimit, status |-> "COMPLETE", progress |-> 100,
     message |-> "Scan Complete", report |-> [pages |-> <<1>>],
     timestamp |-> i - n, queuePosition |-> Undefined,
     estimatedWaitTime |-> Undefined]

EarlierRun(i, n) ==
    [id |-> i - n, pc |-> "resolved", start |-> 0, pages |-> 0,
     pagesProcessed |-> 0, pageReports |-> <<>>]

\* The duration of the i-th of the earlier jobs, in milliseconds.
EarlierDuration(i) == 10 + i

\* Map<string, ScanState> with the records of the n earlier jobs.
EarlierScans(n) == [id \in (1 - n) .. 0 |-> EarlierJob(id + n, n)]

\* As many earlier jobs as the buffer holds samples, or one less.
BacklogSizes == {MAX_DURATION_SAMPLES - 1, MAX_DURATION_SAMPLES}

\* Most submissions accepted after the earlier jobs.
MaxLaterJobs == 2

InitBacklog ==
    /\ now = 1
    /\ \E n \in BacklogSizes :
          /\ scans = EarlierScans(n)
          /\ runs = [i \in 1 .. n |-> EarlierRun(i, n)]
          /\ scanDurations = [i \in 1 .. n |-> EarlierDuration(i)]
    /\ scanQueue = <<>>
    /\ activeScans = 0
    /\ isScanning = FALSE
    /\ stored = Null
    /\ response = [code |-> 0]
    /\ CrawlIdle
    /\ ScoreIdle
    /\ AuditIdle

NextBacklog == NextOf(MAX_DURATION_SAMPLES + MaxLaterJobs, {0}, 1)

SpecBacklog == InitBacklog /\ [][NextBacklog]_vars

\* The server with a long queue: PastJobs earlier jobs have completed, one
\* after the other, and left their durations in the buffer; since then
\* MAX_CONCURRENT_SCANS + QueuedJobs jobs were submitted, one per
\* millisecond up to the reading 0, the first MAX_CONCURRENT_SCANS of them
\* running (still crawling) and the others queued, none promoted so far.
PastJobs == 7

QueuedJobs == 9

\* Most submissions accepted on top of the long queue.
MaxLongQueueJobs == 1

\* Milliseconds between the submissions of the earlier jobs.
PastGap == 30000

PastId(k) == (k - (PastJobs + 1)) * PastGap

\* The duration of the k-th of the earlier jobs: 18 s, the last one 22.5 s.
PastDuration(k) == IF k = PastJobs THEN 22500 ELSE 18000

RECURSIVE PastDurationsUpTo(_)
PastDurationsUpTo(k) ==
    IF k = 0 THEN <<>> ELSE Append(PastDurationsUpTo(k - 1), PastDuration(k))

PastDurations == PastDurationsUpTo(PastJobs)

PastJob(k) ==
    [id |-> PastId(k), url |-> "https://site.test/", devices |-> <<"mobile">>,
     pageLimit |-> DefaultPageLimit, status |-> "COMPLETE", progress |-> 100,
     message |-> "Scan Complete", report |-> [pages |-> <<1>>],
     timestamp |-> PastId(k), queuePosition |-> Undefined,
     estimatedWaitTime |-> Undefined]

PastRun(k) ==
    [id |-> PastId(k), pc |-> "resolved", start |-> PastId(k), pages |-> 0,
     pagesProcessed |-> 0, pageReports |-> <<>>]

\* The id of the j-th of the jobs submitted since: a reading up to 0.
RecentId(j) == j - (MAX_CONCURRENT_SCANS + QueuedJobs)

\* The record of the j-th of them: started at once (server.ts:155-170,
\* 98), or queued behind j - 1 - MAX_CONCURRENT_SCANS others (159-163).
RecentJob(j) ==
    LET willStartImmediately == j <= MAX_CONCURRENT_SCANS
        queuePosition ==
            Max(1, (j - 1 - MAX_CONCURRENT_SCANS) + 1 - MAX_CONCURRENT_SCANS)
    IN [id |-> RecentId(j), url |-> "https://site.test/",
        devices |-> <<"mobile">>, pageLimit |-> DefaultPageLimit,
        status |-> StoredStatus(willStartImmediately), progress |-> 0,
        message |-> IF willStartImmediately THEN "Starting scan..."
                    ELSE "Waiting in queue...",
        report |-> Null, timestamp |-> RecentId(j),
        queuePosition |-> IF willStartImmediately THEN Undefined
                          ELSE queuePosition,
        estimatedWaitTime |->
            IF willStartImmediately THEN Undefined
            ELSE EstimatedWait(queuePosition, PastDurations,
                               MAX_CONCURRENT_SCANS)]

\* Map<string, ScanState> holding the given records, each under its id.
RECURSIVE Recorded(_)
Recorded(jobs) ==
    IF jobs = <<>> THEN <<>>
    ELSE (Head(jobs).id :> Head(jobs)) @@ Recorded(Tail(jobs))

RECURSIVE PastJobsUpTo(_)
PastJobsUpTo(k) == IF k = 0 THEN <<>> ELSE Append(PastJobsUpTo(k - 1), PastJob(k))

RECURSIVE RecentJobsUpTo(_)
RecentJobsUpTo(j) ==
    IF j = 0 THEN <<>> ELSE Append(RecentJobsUpTo(j - 1), RecentJob(j))

LongQueueScans ==
    Recorded(PastJobsUpTo(PastJobs)
             \o RecentJobsUpTo(MAX_CONCURRENT_SCANS + QueuedJobs))

RECURSIVE LongQueueRunsUpTo(_)
LongQueueRunsUpTo(r) ==
    IF r = 0 THEN <<>>
    ELSE Append(LongQueueRunsUpTo(r - 1),
                IF r <= PastJobs THEN PastRun(r)
                ELSE NewRun(RecentId(r - PastJobs), RecentId(r - PastJobs)))

RECURSIVE LongQueueUpTo(_)
LongQueueUpTo(i) ==
    IF i = 0 THEN <<>>
    ELSE Append(LongQueueUpTo(i - 1), RecentId(MAX_CONCURRENT_SCANS + i))

InitLongQueue ==
    /\ now = 1
    /\ scans = LongQueueScans
    /\ runs = LongQueueRunsUpTo(PastJobs + MAX_CONCURRENT_SCANS)
    /\ scanDurations = PastDurations
    /\ scanQueue = LongQueueUpTo(QueuedJobs)
    /\ activeScans = MAX_CONCURRENT_SCANS
    /\ isScanning = FALSE
    /\ stored = Null
    /\ response = [code |-> 0]
    /\ CrawlIdle
    /\ ScoreIdle
    /\ AuditIdle

\* Runs that go on: those of the running jobs and of the first jobs promoted.
\* The clock stands still meanwhile: all of this happens within a millisecond.
MaxPromotedRuns == 0

LongQueueRuns == 1 .. PastJobs + MAX_CONCURRENT_SCANS + MaxPromotedRuns

\* The long queue under at most later more accepted submissions.
NextLongQueueOf(later) ==
    \/ /\ Accepted < PastJobs + MAX_CONCURRENT_SCANS + QueuedJobs + later
       /\ \E url \in Urls, devices \in DeviceLists :
             Submit(url, devices, 0)
    \/ \E r \in LongQueueRuns : CrawlDone(r, 1)
    \/ \E r \in LongQueueRuns : LaunchDone(r)
    \/ \E r \in LongQueueRuns : PageDone(r)
    \/ \E r \in LongQueueRuns : Complete(r)
    \/ \E r \in LongQueueRuns : Fail(r)

NextLongQueue == NextLongQueueOf(MaxLongQueueJobs)

SpecLongQueue == InitLongQueue /\ [][NextLongQueue]_vars

\* The long queue with two more submissions, which can come within the same
\* millisecond.
MaxCrowdJobs == 2

NextCrowd == NextLongQueueOf(MaxCrowdJobs)

SpecCrowd == InitLongQueue /\ [][NextCrowd]_vars

NextPages == NextOf(MaxPageJobs, PageLimits, MaxSitePages)

SpecPages == Init /\ [][NextPages]_vars

\* ----------------------------------------------------- single-slot server
\* updateQueuePositions() of the single-slot version: position = index + 1.
RECURSIVE UpdateFromSingle(_, _, _, _)
UpdateFromSingle(s, queue, durations, i) ==
    IF i > Len(queue) THEN s
    ELSE LET scanId == queue[i]
             position == i
             s1 == IF scanId \in DOMAIN s /\ s[scanId].status = "QUEUED"
                   THEN [s EXCEPT ![scanId] =
                            [@ EXCEPT !.queuePosition = position,
                                      !.estimatedWaitTime =
                                          EstimatedWait(position, durations, 1)]]
                   ELSE s
         IN UpdateFromSingle(s1, queue, durations, i + 1)

updateQueuePositionsSingle(s, queue, durations) ==
    UpdateFromSingle(s, queue, durations, 1)

\* processQueue() of the single-slot version, up to its await of runScan.
\* st = [scans, scanQueue, isScanning, runs].
RECURSIVE processQueueSingle(_, _, _)
processQueueSingle(st, durations, t) ==
    IF st.isScanning \/ Len(st.scanQueue) = 0 THEN st
    ELSE LET scanId == Head(st.scanQueue)
             rest == Tail(st.scanQueue)
         IN IF scanId \notin DOMAIN st.scans
            THEN processQueueSingle([st EXCEPT !.scanQueue = rest], durations, t)
            ELSE LET s1 == updateState(st.scans, scanId, "SCANNING",
                                       "Starting scan...", 0,
                                       st.scans[scanId].report)
                     s2 == updateQueuePositionsSingle(s1, rest, durations)
                     s3 == RunScanStart(s2, scanId)
                 IN [scans |-> s3, scanQueue |-> rest, isScanning |-> TRUE,
                     runs |-> Append(st.runs, NewRun(scanId, t))]

\* The position computed as the multi-slot version computes it with one scan
\* active: Math.max(1, scanQueue.length + 1 - activeScans).
SubmitPositionLessActive(queue) == Max(1, Len(queue) + 1 - 1)

\* The position a submission is given: scanQueue.length + 1.
SubmitPositionSingle(queue) == Len(queue) + 1

\* POST /api/scan of the single-slot version, lines 362-403.
SubmitSingle(url, devices) ==
    /\ IF url = "" \/ devices = <<>>
       THEN /\ response' = BadRequest
            /\ UNCHANGED <<now, scans, scanQueue, activeScans, isScanning,
                           scanDurations, runs, stored, crawlVars, scoreVars, auditVars>>
       ELSE LET scanId == now
                queuePosition == SubmitPositionSingle(scanQueue)
                estimatedWait == EstimatedWait(queuePosition, scanDurations, 1)
                rec == [id |-> scanId, url |-> url, devices |-> devices,
                        pageLimit |-> Undefined,
                        status |-> "QUEUED",
                        progress |-> 0,
                        message |-> "Waiting in queue...",
                        report |-> Null,
                        timestamp |-> now,
                        queuePosition |-> queuePosition,
                        estimatedWaitTime |-> estimatedWait]
                st == processQueueSingle(
                          [scans |-> (scanId :> rec) @@ scans,
                           scanQueue |-> Append(scanQueue, scanId),
                           isScanning |-> isScanning,
                           runs |-> runs],
                          scanDurations, now)
            IN /\ scans' = st.scans
               /\ scanQueue' = st.scanQueue
               /\ isScanning' = st.isScanning
               /\ runs' = st.runs
               /\ stored' = rec
               /\ response' = [code |-> 200,
                               message |-> "Scan queued",
                               scanId |-> scanId,
                               queuePosition |-> queuePosition,
                               estimatedWaitTime |-> estimatedWait]
               /\ UNCHANGED <<now, activeScans, scanDurations, crawlVars, scoreVars, auditVars>>

\* The finally block: isScanning = false; processQueue().
FinallySingle(s, durations) ==
    processQueueSingle([scans |-> s, scanQueue |-> scanQueue,
                        isScanning |-> FALSE, runs |-> runs],
                       durations, now)

\* runScan resolved inside the try block.
CompleteSingle(r) ==
    /\ r \in DOMAIN runs
    /\ runs[r].pc = "close"
    /\ LET durations == PushDuration(scanDurations, now - runs[r].start)
           st == FinallySingle(CompleteState(scans, runs[r]), durations)
       IN /\ scans' = st.scans
          /\ scanQueue' = st.scanQueue
          /\ isScanning' = st.isScanning
          /\ runs' = Settled(st, r, "resolved")
          /\ scanDurations' = durations
    /\ UNCHANGED <<now, activeScans, stored, response, crawlVars, scoreVars, auditVars>>

\* runScan threw: the catch block, then the finally block.
FailSingle(r) ==
    /\ r \in DOMAIN runs
    /\ runs[r].pc \in {"crawl", "launch", "page", "close"}
    /\ LET st == FinallySingle(FailState(scans, runs[r].id), scanDurations)
       IN /\ scans' = st.scans
          /\ scanQueue' = st.scanQueue
          /\ isScanning' = st.isScanning
          /\ runs' = Settled(st, r, "rejected")
    /\ UNCHANGED <<now, activeScans, scanDurations, stored, response, crawlVars, scoreVars, auditVars>>

NextSingle ==
    \/ /\ Accepted < MaxSingleJobs
       /\ \E url \in Urls, devices \in DeviceLists : SubmitSingle(url, devices)
    \/ Tick
    \/ \E r \in 1 .. MaxSingleJobs : \E n \in CrawlSizes(1) : CrawlDone(r, n)
    \/ \E r \in 1 .. MaxSingleJobs : LaunchDone(r)
    \/ \E r \in 1 .. MaxSingleJobs : PageDone(r)
    \/ \E r \in 1 .. MaxSingleJobs : CompleteSingle(r)
    \/ \E r \in 1 .. MaxSingleJobs : FailSingle(r)

SpecSingle == Init /\ [][NextSingle]_vars

\* --------------------------------------------------------------- crawler
\* A URL string, as far as crawlSite looks into it: whether it starts with
\* 'http', its hostname, its path and its fragment ("" for none).  Two URL
\* strings are equal iff all four agree.
Url(http, host, path, frag) ==
    [http |-> http, host |-> host, path |-> path, frag |-> frag]

\* referrer: null
NoReferrer == Url(FALSE, "", "", "")

\* link.split('#')[0]
StripFragment(u) == [u EXCEPT !.frag = ""]

\* The document a navigation to u loads.
Document(u) == <<u.host, u.path>>

\* The hrefs the anchors of the explored sites carry: pages of the seed's host,
\* two of them with a fragment, a page of another host, and a mailto: link.
Hrefs ==
    {Url(TRUE, "site", "/a", ""), Url(TRUE, "site", "/a", "top"),
     Url(TRUE, "site", "/b", ""),
     Url(TRUE, "site", "/b", "top"), Url(TRUE, "site", "/c", ""),
     Url(TRUE, "other", "/a", ""), Url(FALSE, "", "mailto:x", "")}

\* The seeds explored: a page of the site, plain and with a fragment.
Seeds == {Url(TRUE, "site", "/a", ""), Url(TRUE, "site", "/a", "top")}

\* Longest list of anchors on one document.
MaxLinks == 2
\* Largest maxDepth and maxPages explored, besides the defaults.
MaxCrawlDepth == 1
MaxCrawlPages == 3

LinkLists == UNION {[1 .. n -> Hrefs] : n \in 0 .. MaxLinks}

CrawlDepths == (0 .. MaxCrawlDepth) \cup {DefaultMaxDepth}
CrawlPageLimits == (0 .. MaxCrawlPages) \cup {DefaultMaxPages}

\* crawlSite(startUrl, maxDepth, maxPages) up to its loop: the queue holds the
\* seed at depth 0 without referrer, domain is the seed's hostname.
InitCrawl ==
    /\ ServerInit
    /\ \E startUrl \in Seeds, maxDepth \in CrawlDepths, maxPages \in CrawlPageLimits :
          crawl = [pc |-> "loop", startUrl |-> startUrl, maxDepth |-> maxDepth,
                   maxPages |-> maxPages, domain |-> startUrl.host]
    /\ visited = <<>>
    /\ crawlQueue = <<[url |-> crawl.startUrl, depth |-> 0, referrer |-> NoReferrer]>>
    /\ site = <<>>
    /\ fetched = <<>>
    /\ ScoreIdle
    /\ AuditIdle

\* A Map lookup that finds nothing.
VisitedHasNever(v, u) == FALSE

\* visited.has(u)
VisitedHas(v, u) == \E i \in DOMAIN v : v[i].url = u

\* The loop condition with the page limit tested inclusively.
CrawlGoesOnInclusive(q, v, maxPages) == Len(q) > 0 /\ Len(v) <= maxPages

\* The while loop's condition.
CrawlGoesOn(q, v, maxPages) == Len(q) > 0 /\ Len(v) < maxPages

\* A hostname test that lets every link pass.
SameHostAlways(link, domain) == TRUE

\* linkUrl.hostname === domain
SameHost(link, domain) == link.host = domain

\* A depth test that reads the links of pages at maxDepth too.
ExpandsLinksAtLimit(depth, maxDepth) == depth <= maxDepth

\* The links of a page are read if it lies above maxDepth.
ExpandsLinks(depth, maxDepth) == depth < maxDepth

\* The for loop over the links of the page loaded from url at depth: a link
\* of the seed's host that is not visited, as it stands and without its
\* fragment, is queued without its fragment.
RECURSIVE EnqueueLinks(_, _, _, _, _, _)
EnqueueLinks(q, links, v, domain, url, depth) ==
    IF links = <<>> THEN q
    ELSE LET link == Head(links)
             cleanLink == StripFragment(link)
             q1 == IF /\ SameHost(link, domain)
                      /\ ~VisitedHas(v, link)
                      /\ ~VisitedHas(v, cleanLink)
                   THEN Append(q, [url |-> cleanLink, depth |-> depth + 1,
                                   referrer |-> url])
                   ELSE q
         IN EnqueueLinks(q1, Tail(links), v, domain, url, depth)

\* A page evaluation that finds no anchors.
HttpLinksNone(links) == <<>>

\* A shift that leaves the head in the queue.
ShiftNothing(q) == q

\* queue.shift(): what is left of the queue.
Shift(q) == Tail(q)

\* anchors.map(a => a.href).filter(href => href.startsWith('http'))
HttpLinks(links) == SelectSeq(links, LAMBDA l : l.http)

\* An iteration that ends at one of the two continue statements: the url is
\* visited already, or lies deeper than maxDepth.
CrawlSkip ==
    /\ crawl.pc = "loop"
    /\ CrawlGoesOn(crawlQueue, visited, crawl.maxPages)
    /\ LET item == Head(crawlQueue)
       IN /\ VisitedHas(visited, item.url) \/ item.depth > crawl.maxDepth
          /\ crawlQueue' = Shift(crawlQueue)
    /\ UNCHANGED <<crawl, visited, site, fetched, serverVars, scoreVars, auditVars>>

\* The links the document behind u carries: what it carried when it was loaded
\* before, any list otherwise.
LinksOf(u, links) ==
    IF Document(u) \in DOMAIN site THEN links = site[Document(u)]
    ELSE links \in LinkLists

\* An iteration that visits the url and loads it: its links are queued if it
\* lies above maxDepth.
CrawlVisit(links) ==
    /\ crawl.pc = "loop"
    /\ CrawlGoesOn(crawlQueue, visited, crawl.maxPages)
    /\ LET item == Head(crawlQueue)
           v1 == Append(visited, [url |-> item.url, referrer |-> item.referrer])
       IN /\ ~VisitedHas(visited, item.url)
          /\ item.depth <= crawl.maxDepth
          /\ LinksOf(item.url, links)
          /\ visited' = v1
          /\ fetched' = Append(fetched,
                [url |-> item.url, ok |-> TRUE, depth |-> item.depth,
                 expanded |-> ExpandsLinks(item.depth, crawl.maxDepth)])
          /\ site' = (Document(item.url) :> links) @@ site
          /\ crawlQueue' =
                IF ExpandsLinks(item.depth, crawl.maxDepth)
                THEN EnqueueLinks(Shift(crawlQueue), HttpLinks(links), v1,
                                  crawl.domain, item.url, item.depth)
                ELSE Shift(crawlQueue)
    /\ UNCHANGED <<crawl, serverVars, scoreVars, auditVars>>

\* An iteration that visits the url and fails to load it (timeout, error).
CrawlVisitFails ==
    /\ crawl.pc = "loop"
    /\ CrawlGoesOn(crawlQueue, visited, crawl.maxPages)
    /\ LET item == Head(crawlQueue)
       IN /\ ~VisitedHas(visited, item.url)
          /\ item.depth <= crawl.maxDepth
          /\ visited' = Append(visited, [url |-> item.url,
                                         referrer |-> item.referrer])
          /\ fetched' = Append(fetched,
                [url |-> item.url, ok |-> FALSE, depth |-> item.depth,
                 expanded |-> FALSE])
          /\ crawlQueue' = Shift(crawlQueue)
    /\ UNCHANGED <<crawl, site, serverVars, scoreVars, auditVars>>

\* The loop ends, the browser is closed and the Map's entries are returned.
CrawlReturn ==
    /\ crawl.pc = "loop"
    /\ ~CrawlGoesOn(crawlQueue, visited, crawl.maxPages)
    /\ crawl' = [crawl EXCEPT !.pc = "returned"]
    /\ UNCHANGED <<visited, crawlQueue, site, fetched, serverVars, scoreVars, auditVars>>

NextCrawl ==
    \/ CrawlSkip
    \/ \E links \in LinkLists : CrawlVisit(links)
    \/ CrawlVisitFails
    \/ CrawlReturn

SpecCrawl == InitCrawl /\ [][NextCrawl]_vars

\* Every navigation returns or throws, and the loop goes on after it.
FairSpecCrawl == SpecCrawl /\ WF_vars(NextCrawl)

\* ---------------------------------------------------------------- scorer
\* Issue['category'] and Issue['severity']; calculateScore reads nothing else
\* of an issue.
Categories ==
    <<"Performance", "Responsiveness & Layout", "Accessibility", "SEO",
      "Errors & Reliability", "Best Practices">>

Severities == {"Critical", "Major", "Minor", "Suggestion"}

Issue(category, severity) == [category |-> category, severity |-> severity]

PENALTY ==
    ("Critical" :> 25) @@ ("Major" :> 15) @@ ("Minor" :> 5) @@ ("Suggestion" :> 1)

\* Weights with 0.5 for Performance in place of 0.25.
WeightsHeavy ==
    ("Performance" :> <<8192, 0, 0>>) @@
    ("Responsiveness & Layout" :> <<3276, 1677721, 1258292>>) @@
    ("Accessibility" :> <<2457, 1258291, 419430>>) @@
    ("SEO" :> <<2457, 1258291, 419430>>) @@
    ("Errors & Reliability" :> <<2457, 1258291, 419430>>) @@
    ("Best Practices" :> <<1638, 838860, 1677722>>)

\* The doubles nearest to 0.25, 0.20, 0.15 and 0.10:
\* 2^-2, 0x1.999999999999ap-3, 0x1.3333333333333p-3, 0x1.999999999999ap-4.
WEIGHTS ==
    ("Performance" :> <<4096, 0, 0>>) @@
    ("Responsiveness & Layout" :> <<3276, 1677721, 1258292>>) @@
    ("Accessibility" :> <<2457, 1258291, 419430>>) @@
    ("SEO" :> <<2457, 1258291, 419430>>) @@
    ("Errors & Reliability" :> <<2457, 1258291, 419430>>) @@
    ("Best Practices" :> <<1638, 838860, 1677722>>)

\* Math.round(x): the nearest integer, a half going up.
MathRoundDouble(x) ==
    (x[1] \div (2 ^ 14)) + (IF x[1] % (2 ^ 14) >= 2 ^ 13 THEN 1 ELSE 0)

\* Start with 100 for each category.
InitialScores == [c \in {Categories[i] : i \in DOMAIN Categories} |-> 100]

\* A penalty taken off without a floor.
PenalisedUnfloored(categoryScore, penalty) == categoryScore - penalty

\* Math.max(0, scores[issue.category] - PENALTY[issue.severity])
Penalised(categoryScore, penalty) == Max(0, categoryScore - penalty)

\* A loop that stops after the first issue.
ApplyFirstPenalty(scores, list) ==
    IF list = <<>> THEN scores
    ELSE [scores EXCEPT ![Head(list).category] =
             Penalised(@, PENALTY[Head(list).severity])]

\* issues.forEach(...)
RECURSIVE ApplyPenalties(_, _)
ApplyPenalties(scores, list) ==
    IF list = <<>> THEN scores
    ELSE ApplyPenalties(
            [scores EXCEPT ![Head(list).category] =
                Penalised(@, PENALTY[Head(list).severity])],
            Tail(list))

\* totalWeighted after the first n of its six additions, starting from 0.
RECURSIVE TotalWeighted(_, _)
TotalWeighted(scores, n) ==
    IF n = 0 THEN <<0, 0, 0>>
    ELSE FloatPlus(TotalWeighted(scores, n - 1),
                   FloatTimes(scores[Categories[n]], WEIGHTS[Categories[n]]))

\* calculateScore(issues): the report without the pages handed through.
calculateScore(list) ==
    LET scores == ApplyPenalties(InitialScores, list)
    IN [overallScore |-> MathRoundDouble(TotalWeighted(scores, Len(Categories))),
        categories |-> scores,
        details |-> list]

\* The issue lists explored: up to MaxIssues issues of any category and
\* severity, and up to MaxDeepIssues heavy issues of two categories.
MaxIssues == 3
MaxDeepIssues == 6

IssueKinds ==
    {Issue(Categories[i], s) : i \in DOMAIN Categories, s \in Severities}

DeepIssueKinds ==
    {Issue("Performance", "Critical"), Issue("Performance", "Major"),
     Issue("SEO", "Critical")}

InitScore == ServerInit /\ CrawlIdle /\ ScoreIdle /\ AuditIdle

\* The caller collects one more issue.
PushIssue(issue, maxIssues) ==
    /\ score = NoScore
    /\ Len(issues) < maxIssues
    /\ issues' = Append(issues, issue)
    /\ UNCHANGED <<score, serverVars, crawlVars, auditVars>>

\* The caller calls calculateScore with the issues collected.
ScoreIssues ==
    /\ score = NoScore
    /\ score' = calculateScore(issues)
    /\ UNCHANGED <<issues, serverVars, crawlVars, auditVars>>

NextScoreOf(kinds, maxIssues) ==
    \/ \E issue \in kinds : PushIssue(issue, maxIssues)
    \/ ScoreIssues

NextScore == NextScoreOf(IssueKinds, MaxIssues)

SpecScore == InitScore /\ [][NextScore]_vars

NextScoreDeep == NextScoreOf(DeepIssueKinds, MaxDeepIssues)

SpecScoreDeep == InitScore /\ [][NextScoreDeep]_vars

\* The lists explored down to an overall score of 0: Critical issues only, up
\* to MaxPerCategory in each category, pushed category by category.
MaxPerCategory == 4

CriticalKinds == {Issue(Categories[i], "Critical") : i \in DOMAIN Categories}

CategoryIndex(c) == CHOOSE i \in DOMAIN Categories : Categories[i] = c

\* The caller collects one more issue, of the last issue's category or of a
\* later one.
PushIssueInOrder(issue, maxPerCategory) ==
    /\ score = NoScore
    /\ issues # <<>> =>
          CategoryIndex(issues[Len(issues)].category) <= CategoryIndex(issue.category)
    /\ Len(SelectSeq(issues, LAMBDA e : e.category = issue.category))
          < maxPerCategory
    /\ issues' = Append(issues, issue)
    /\ UNCHANGED <<score, serverVars, crawlVars, auditVars>>

NextScoreFull ==
    \/ \E issue \in CriticalKinds : PushIssueInOrder(issue, MaxPerCategory)
    \/ ScoreIssues

SpecScoreFull == InitScore /\ [][NextScoreFull]_vars

\* ------------------------------------------------- runScan, page by page
\* The text of a string, character by character, for the strings whose
\* characters the code looks at (String.prototype.includes).
Spell ==
    ("https://" :> <<"h", "t", "t", "p", "s", ":", "/", "/">>)
    @@ ("site" :> <<"s", "i", "t", "e">>)
    @@ ("www.google-analytics.com" :> <<"w", "w", "w", ".", "g", "o", "o", "g", "l", "e", "-", "a",
              "n", "a", "l", "y", "t", "i", "c", "s", ".", "c", "o", "m">>)
    @@ ("/app.js" :> <<"/", "a", "p", "p", ".", "j", "s">>)
    @@ ("/collect" :> <<"/", "c", "o", "l", "l", "e", "c", "t">>)
    @@ ("/about.config.js" :> <<"/", "a", "b", "o", "u", "t", ".", "c", "o", "n", "f", "i",
              "g", ".", "j", "s">>)

\* request.url() as text: the scheme, the host and the path.
UrlText(u) == Spell["https://"] \o Spell[u.host] \o Spell[u.path]

\* text.includes(part)
Includes(text, part) ==
    \E i \in 1 .. (Len(text) - Len(part) + 1) :
        SubSeq(text, i, i + Len(part) - 1) = part

IGNORED_DOMAINS ==
    <<<<"g", "o", "o", "g", "l", "e", "-", "a", "n", "a", "l", "y", "t",
        "i", "c", "s", ".", "c", "o", "m">>,
      <<"g", "o", "o", "g", "l", "e", "t", "a", "g", "m", "a", "n", "a",
        "g", "e", "r", ".", "c", "o", "m">>,
      <<"f", "a", "c", "e", "b", "o", "o", "k", ".", "n", "e", "t">>,
      <<"c", "o", "n", "n", "e", "c", "t", ".", "f", "a", "c", "e", "b",
        "o", "o", "k", ".", "n", "e", "t">>,
      <<"d", "o", "u", "b", "l", "e", "c", "l", "i", "c", "k", ".", "n",
        "e", "t">>,
      <<"g", "o", "o", "g", "l", "e", "a", "d", "s", "e", "r", "v", "i",
        "c", "e", "s", ".", "c", "o", "m">>,
      <<"h", "o", "t", "j", "a", "r", ".", "c", "o", "m">>,
      <<"s", "e", "g", "m", "e", "n", "t", ".", "i", "o">>,
      <<"l", "i", "n", "k", "e", "d", "i", "n", ".", "c", "o", "m">>,
      <<"t", "w", "i", "t", "t", "e", "r", ".", "c", "o", "m">>,
      <<"t", ".", "c", "o">>,
      <<"p", "i", "n", "t", "e", "r", "e", "s", "t", ".", "c", "o", "m">>>>
\* The description of an issue, as far as issues of one title differ in it:
\* its wording and the URL it names (NoReferrer where it names none).
Description(text, url) == [text |-> text, url |-> url]

ScanIssue(category, severity, title, description, affectedUrl) ==
    [category |-> category, severity |-> severity, title |-> title,
     description |-> description, affectedUrl |-> affectedUrl]

\* page.on('console', msg => ...)
onConsole(list, url, msg) ==
    IF msg.type = "error"
    THEN Append(list, ScanIssue("Errors & Reliability", "Major", "Console Error",
                                Description(msg.text, NoReferrer), url))
    ELSE IF msg.type = "warning"
    THEN Append(list, ScanIssue("Best Practices", "Suggestion", "Console Warning",
                                Description(msg.text, NoReferrer), url))
    ELSE list

\* page.on('pageerror', exception => ...)
onPageError(list, url, exception) ==
    Append(list, ScanIssue("Errors & Reliability", "Critical", "Uncaught Exception",
                           Description(exception.message, NoReferrer), url))

\* The description of 'Page Not Found': it names the referrer if there is one.
NotFoundDescription(referrer) ==
    IF referrer # NoReferrer
    THEN Description("The page returned a 404 status. Found on: ", referrer)
    ELSE Description("The page returned a 404 status.", NoReferrer)

\* page.on('response', response => ...)
onResponse(list, url, referrer, resp) ==
    IF resp.status >= 400
    THEN IF resp.url = url /\ resp.status = 404
         THEN Append(list, ScanIssue("Errors & Reliability", "Critical",
                                     "Page Not Found",
                                     NotFoundDescription(referrer), url))
         ELSE IF resp.status >= 500
         THEN Append(list, ScanIssue("Errors & Reliability", "Major",
                                     "Server Error",
                                     Description("returned status", resp.url),
                                     url))
         ELSE IF resp.status = 404
         THEN Append(list, ScanIssue("Errors & Reliability", "Minor",
                                     "Broken Resource",
                                     Description("returned 404 Not Found on",
                                                 resp.url),
                                     url))
         ELSE list
    ELSE list

\* IGNORED_DOMAINS.some(domain => failedUrl.includes(domain))
Ignored(failedUrl) ==
    \E i \in DOMAIN IGNORED_DOMAINS : Includes(failedUrl, IGNORED_DOMAINS[i])

\* page.on('requestfailed', request => ...)
onRequestFailed(list, url, request) ==
    IF Ignored(UrlText(request.url)) THEN list
    ELSE IF request.errorText = "net::ERR_ABORTED" THEN list
    ELSE Append(list, ScanIssue("Errors & Reliability", "Minor", "Failed Request",
                                Description(request.errorText, request.url), url))

\* What a listener of the page audited at url does with an event.
Listen(list, url, referrer, e) ==
    IF e.kind = "console" THEN onConsole(list, url, e)
    ELSE IF e.kind = "pageerror" THEN onPageError(list, url, e)
    ELSE IF e.kind = "response" THEN onResponse(list, url, referrer, e)
    ELSE onRequestFailed(list, url, e)

\* analysis.onPageIssues.forEach(i => scanIssues.push({...i, affectedUrl: url}))
RECURSIVE PushOnPageIssues(_, _, _)
PushOnPageIssues(list, onPageIssues, url) ==
    IF onPageIssues = <<>> THEN list
    ELSE LET i == Head(onPageIssues)
         IN PushOnPageIssues(
                Append(list, ScanIssue(i.category, i.severity, i.title,
                                       i.description, url)),
                Tail(onPageIssues), url)

\* A fallback test that does not look at LCP.
NeverCapturedAnyway(lcp) == TRUE

\* !lcp: the observer never wrote a start time over the initial 0.
NeverCaptured(lcp) == lcp = 0

PerformanceIssue(severity, title, url) ==
    ScanIssue("Performance", severity, title, Description(title, NoReferrer), url)

\* The four threshold tests on analysis.metrics.  Times are in milliseconds;
\* cls is held in thousandths, so cls > 0.1 reads cls > 100; a duration
\* that is undefined compares false.
PushMetricIssues(list, metrics, url) ==
    LET l1 == IF metrics.lcp > 2500
              THEN Append(list, PerformanceIssue("Minor",
                              "Slow Largest Contentful Paint (LCP)", url))
              ELSE list
        l2 == IF metrics.fcp > 1800
              THEN Append(l1, PerformanceIssue("Suggestion",
                              "Slow First Contentful Paint (FCP)", url))
              ELSE l1
        l3 == IF metrics.cls > 100
              THEN Append(l2, PerformanceIssue("Minor",
                              "Cumulative Layout Shift (CLS)", url))
              ELSE l2
    IN IF NeverCaptured(metrics.lcp) /\ metrics.duration > 5000
       THEN Append(l3, PerformanceIssue("Suggestion", "Slow Load Time", url))
       ELSE l3

DEVICE_MAP ==
    ("small-mobile" :> [name |-> "Small Mobile", width |-> 375, height |-> 667])
    @@ ("mobile" :> [name |-> "Mobile", width |-> 390, height |-> 844])
    @@ ("big-mobile" :> [name |-> "Big Mobile", width |-> 430, height |-> 932])
    @@ ("tablet-small" :> [name |-> "Tablet Small", width |-> 768, height |-> 1024])
    @@ ("tablet-normal" :> [name |-> "Tablet Normal", width |-> 1024, height |-> 1366])
    @@ ("desktop-small" :> [name |-> "Desktop Small", width |-> 1280, height |-> 720])
    @@ ("desktop-medium" :> [name |-> "Desktop Medium", width |-> 1366, height |-> 768])
    @@ ("desktop-normal" :> [name |-> "Desktop Normal", width |-> 1920, height |-> 1080])

\* selectedDevices.map(deviceId => DEVICE_MAP[deviceId]).filter(Boolean)
RECURSIVE MapDevices(_)
MapDevices(selectedDevices) ==
    IF selectedDevices = <<>> THEN <<>>
    ELSE (IF Head(selectedDevices) \in DOMAIN DEVICE_MAP
          THEN <<DEVICE_MAP[Head(selectedDevices)]>> ELSE <<>>)
         \o MapDevices(Tail(selectedDevices))

BREAKPOINTS(selectedDevices) ==
    IF Len(selectedDevices) > 0 THEN MapDevices(selectedDevices)
    ELSE <<[name |-> "Mobile", width |-> 390, height |-> 844],
           [name |-> "Tablet", width |-> 768, height |-> 1024],
           [name |-> "Desktop", width |-> 1440, height |-> 900]>>

\* The viewport test: one issue if the content is wider than the window.
PushOverflowIssue(list, bp, scrollWidth, clientWidth, url) ==
    IF scrollWidth > clientWidth
    THEN Append(list, ScanIssue("Responsiveness & Layout", "Major",
                                "Horizontal Overflow",
                                Description(bp.name, NoReferrer), url))
    ELSE list

\* A catch block that records nothing.
ScanFailedUnrecorded(list, url) == list

\* The catch block of the page's try.
PushScanFailed(list, url) ==
    Append(list, ScanIssue("Errors & Reliability", "Critical", "Scan Failed",
                           Description("Could not load page for scanning",
                                       NoReferrer), url))

\* scanIssues.filter(i => i.affectedUrl === url)
IssuesOf(list, url) == SelectSeq(list, LAMBDA i : i.affectedUrl = url)

\* The PageReport pushed for a page.
PageReport(list, url, pageMetrics) ==
    LET pageIssues == IssuesOf(list, url)
        pageScoreReport == calculateScore(pageIssues)
    IN [url |-> url, score |-> pageScoreReport.overallScore,
        categoryScores |-> pageScoreReport.categories,
        metrics |-> pageMetrics, issues |-> pageIssues]

\* calculateScore(scanIssues, pageReports): the pages are handed through.
ScoreReport(list, reports) ==
    LET r == calculateScore(list)
    IN [overallScore |-> r.overallScore, categories |-> r.categories,
        details |-> r.details, pages |-> reports]

\* -------------------------------------------- the loop over the pages
\* The lists crawlSite returns to runScan: a seed and a page it links to, the
\* seed given plain or with a fragment.
CrawledPage(url, referrer) == [url |-> url, referrer |-> referrer]

PlainSite ==
    <<CrawledPage(Url(TRUE, "site", "/a", ""), NoReferrer),
      CrawledPage(Url(TRUE, "site", "/b", ""), Url(TRUE, "site", "/a", ""))>>

FragmentSite ==
    <<CrawledPage(Url(TRUE, "site", "/a", "top"), NoReferrer),
      CrawledPage(Url(TRUE, "site", "/b", ""), Url(TRUE, "site", "/a", "top"))>>

\* What the listeners of a page can be told.  A response carries the URL the
\* browser fetched (never a fragment) and its status; navigation tells whether
\* it answers the navigation of page.goto (the last hop of it, after any
\* redirects) or the request for a sub-resource.
ConsoleMessages ==
    {[kind |-> "console", type |-> t, text |-> "text"] :
        t \in {"error", "warning", "log"}}

PageErrors == {[kind |-> "pageerror", message |-> "message"]}

Statuses == {200, 403, 404, 500}

Responses ==
    {[kind |-> "response", url |-> Url(TRUE, "site", p, ""), status |-> s,
      navigation |-> p # "/app.js"] :
        p \in {"/a", "/b", "/app.js"}, s \in Statuses}

FailedRequests ==
    {[kind |-> "requestfailed", url |-> Url(TRUE, h[1], h[2], ""), errorText |-> t] :
        h \in {<<"site", "/app.js">>, <<"www.google-analytics.com", "/collect">>,
               <<"site", "/about.config.js">>},
        t \in {"net::ERR_ABORTED", "net::ERR_FAILED"}}

PageEvents == ConsoleMessages \cup PageErrors \cup Responses \cup FailedRequests

\* What page.evaluate returns: the metrics and the issues found in the DOM.
Analysis(lcp, fcp, cls, duration, onPageIssues) ==
    [kind |-> "analysis",
     metrics |-> [lcp |-> lcp, fcp |-> fcp, cls |-> cls, duration |-> duration],
     onPageIssues |-> onPageIssues]

\* let pageMetrics: any = {}
NoMetrics ==
    [lcp |-> Undefined, fcp |-> Undefined, cls |-> Undefined,
     duration |-> Undefined]

MissingTitle ==
    [category |-> "SEO", severity |-> "Minor", title |-> "Missing Title",
     description |-> Description("Page has no title tag.", NoReferrer)]

\* Most events the listeners of one page are told in the runs explored.
MaxHeard == 1

\* runScan at the top of its loop: the crawl is done, the browser and its
\* context are open, no page has been audited.
InitAuditOf(pageLists, deviceLists) ==
    /\ ServerInit
    /\ CrawlIdle
    /\ ScoreIdle
    /\ pages \in pageLists
    /\ \E selectedDevices \in deviceLists :
          audit = [pc |-> "newPage", selectedDevices |-> selectedDevices,
                   pagesProcessed |-> 0, bp |-> 0, open |-> {},
                   browser |-> "open", heard |-> 0, metrics |-> NoMetrics]
    /\ scanIssues = <<>>
    /\ pageReports = <<>>
    /\ event = Null
    /\ scanReport = Null

\* The page the loop is at.
PageObj == pages[audit.pagesProcessed + 1]

\* context.newPage() returned: the listeners are registered and the init
\* script is added.
NewPageDone ==
    /\ audit.pc = "newPage"
    /\ audit' = [audit EXCEPT !.pc = "goto", !.open = @ \cup {PageObj.url},
                              !.heard = 0, !.metrics = NoMetrics]
    /\ event' = [kind |-> "newPage"]
    /\ UNCHANGED <<pages, scanIssues, pageReports, scanReport, serverVars,
                   crawlVars, scoreVars>>

\* The page tells one of its listeners something, while runScan waits for
\* page.goto, page.evaluate, a viewport step or page.close.
Hear(e, maxHeard) ==
    /\ audit.pc \in {"goto", "evaluate", "viewport", "pageClose"}
    /\ audit.heard < maxHeard
    /\ scanIssues' = Listen(scanIssues, PageObj.url, PageObj.referrer, e)
    /\ audit' = [audit EXCEPT !.heard = @ + 1]
    /\ event' = e
    /\ UNCHANGED <<pages, pageReports, scanReport, serverVars, crawlVars,
                   scoreVars>>

\* A loop that closes the page without pushing a report for it.
PageReportDropped(list, pageMetrics) ==
    /\ scanIssues' = list
    /\ UNCHANGED pageReports
    /\ audit' = [audit EXCEPT !.pc = "pageClose", !.bp = 0]

\* After the try statement: the page's report is pushed and page.close()
\* is called.
PushPageReport(list, pageMetrics) ==
    /\ scanIssues' = list
    /\ pageReports' = Append(pageReports, PageReport(list, PageObj.url, pageMetrics))
    /\ audit' = [audit EXCEPT !.pc = "pageClose", !.bp = 0]

\* page.goto(url) returned.
GotoDone ==
    /\ audit.pc = "goto"
    /\ audit' = [audit EXCEPT !.pc = "evaluate"]
    /\ event' = [kind |-> "loaded"]
    /\ UNCHANGED <<pages, scanIssues, pageReports, scanReport, serverVars,
                   crawlVars, scoreVars>>

\* page.goto(url) threw: the catch block.
GotoFails ==
    /\ audit.pc = "goto"
    /\ PushPageReport(PushScanFailed(scanIssues, PageObj.url), NoMetrics)
    /\ event' = [kind |-> "gotoThrew"]
    /\ UNCHANGED <<pages, scanReport, serverVars, crawlVars, scoreVars>>

\* page.evaluate returned the analysis: its issues and the metric issues are
\* pushed and the loop over the breakpoints begins.
EvaluateDone(analysis) ==
    /\ audit.pc = "evaluate"
    /\ LET url == PageObj.url
           list == PushMetricIssues(
                       PushOnPageIssues(scanIssues, analysis.onPageIssues, url),
                       analysis.metrics, url)
       IN IF BREAKPOINTS(audit.selectedDevices) = <<>>
          THEN PushPageReport(list, analysis.metrics)
          ELSE /\ scanIssues' = list
               /\ audit' = [audit EXCEPT !.pc = "viewport", !.bp = 1,
                                         !.metrics = analysis.metrics]
               /\ UNCHANGED pageReports
    /\ event' = analysis
    /\ UNCHANGED <<pages, scanReport, serverVars, crawlVars, scoreVars>>

\* setViewportSize, waitForTimeout and the two evaluations of a breakpoint
\* returned.
ViewportDone(scrollWidth, clientWidth) ==
    /\ audit.pc = "viewport"
    /\ LET bps == BREAKPOINTS(audit.selectedDevices)
           list == PushOverflowIssue(scanIssues, bps[audit.bp], scrollWidth,
                                     clientWidth, PageObj.url)
       IN IF audit.bp = Len(bps)
          THEN PushPageReport(list, audit.metrics)
          ELSE /\ scanIssues' = list
               /\ audit' = [audit EXCEPT !.bp = @ + 1]
               /\ UNCHANGED pageReports
    /\ event' = [kind |-> "viewport", scrollWidth |-> scrollWidth,
                 clientWidth |-> clientWidth]
    /\ UNCHANGED <<pages, scanReport, serverVars, crawlVars, scoreVars>>

\* page.evaluate or a viewport step threw: the same catch block.
CheckFails ==
    /\ audit.pc \in {"evaluate", "viewport"}
    /\ PushPageReport(PushScanFailed(scanIssues, PageObj.url), NoMetrics)
    /\ event' = [kind |-> "checkThrew"]
    /\ UNCHANGED <<pages, scanReport, serverVars, crawlVars, scoreVars>>

\* page.close() returned: pagesProcessed++, and the loop opens the next page
\* or ends and browser.close() is called.
PageClosed ==
    /\ audit.pc = "pageClose"
    /\ audit' = [audit EXCEPT !.pagesProcessed = @ + 1,
                              !.open = @ \ {PageObj.url},
                              !.pc = IF audit.pagesProcessed + 1 < Len(pages)
                                     THEN "newPage" ELSE "browserClose"]
    /\ event' = [kind |-> "pageClosed"]
    /\ UNCHANGED <<pages, scanIssues, pageReports, scanReport, serverVars,
                   crawlVars, scoreVars>>

\* browser.close() returned: the final report.
BrowserClosed ==
    /\ audit.pc = "browserClose"
    /\ audit' = [audit EXCEPT !.pc = "resolved", !.browser = "closed"]
    /\ scanReport' = ScoreReport(scanIssues, pageReports)
    /\ event' = [kind |-> "browserClosed"]
    /\ UNCHANGED <<pages, scanIssues, pageReports, serverVars, crawlVars,
                   scoreVars>>

\* context.newPage(), page.close() or browser.close() threw, outside any try
\* block: runScan rejects.
AuditRejects ==
    /\ audit.pc \in {"newPage", "pageClose", "browserClose"}
    /\ audit' = [audit EXCEPT !.pc = "rejected"]
    /\ event' = [kind |-> "threw"]
    /\ UNCHANGED <<pages, scanIssues, pageReports, scanReport, serverVars,
                   crawlVars, scoreVars>>

\* The loop under the events, analyses and content widths given.
NextAuditOf(events, analyses, overflows, maxHeard) ==
    \/ NewPageDone
    \/ \E e \in events : Hear(e, maxHeard)
    \/ GotoDone
    \/ GotoFails
    \/ \E analysis \in analyses : EvaluateDone(analysis)
    \/ \E over \in overflows :
          LET clientWidth == BREAKPOINTS(audit.selectedDevices)[audit.bp].width
          IN ViewportDone(clientWidth + over, clientWidth)
    \/ CheckFails
    \/ PageClosed
    \/ BrowserClosed
    \/ AuditRejects

\* A site of two pages, one viewport, and a listener that hears of failing
\* scripts and missing files.
AuditEvents ==
    {e \in PageEvents :
        \/ e.kind = "console" /\ e.type = "error"
        \/ e.kind = "response" /\ ~e.navigation /\ e.status = 404}

AuditAnalyses == {Analysis(1000, 1000, 50, 1000, <<>>),
                  Analysis(3000, 1000, 50, 1000, <<MissingTitle>>)}

InitAudit == InitAuditOf({PlainSite, FragmentSite}, {<<"mobile">>})

NextAudit == NextAuditOf(AuditEvents, AuditAnalyses, {0, 1}, MaxHeard)

SpecAudit == InitAudit /\ [][NextAudit]_vars

\* Both sites, every event the listeners can be told, one viewport.
NextListeners ==
    NextAuditOf(PageEvents, {Analysis(1000, 1000, 50, 1000, <<>>)}, {0}, MaxHeard)

SpecListeners == InitAudit /\ [][NextListeners]_vars

\* One page, and every combination of metrics around the four thresholds:
\* an LCP never captured (0), at and over 2500, an FCP at and over 1800, a
\* CLS at and over 0.1, and a navigation duration missing, at and over 5000.
SinglePage == <<CrawledPage(Url(TRUE, "site", "/a", ""), NoReferrer)>>

MetricAnalyses ==
    {Analysis(lcp, fcp, cls, duration, onPageIssues) :
        lcp \in {0, 2500, 2501, 3000}, fcp \in {0, 1000, 1800, 1801},
        cls \in {0, 50, 100, 101}, duration \in {Undefined, 5000, 5001},
        onPageIssues \in {<<>>, <<MissingTitle>>}}

InitMetrics == InitAuditOf({SinglePage}, {<<"mobile">>})

NextMetrics == NextAuditOf(AuditEvents, MetricAnalyses, {0, 1}, MaxHeard)

SpecMetrics == InitMetrics /\ [][NextMetrics]_vars

\* ------------------------------------------------ GET /api/scan/:scanId
\* The answer for an unknown id (server.ts:195-197).
ScanNotFound == [code |-> 404, error |-> "Scan not found"]

\* GET /api/scan/:scanId, lines 192-199: the stored record, as it is.
GetStatus(scanId) ==
    /\ response' = IF scanId \in DOMAIN scans
                   THEN [code |-> 200, scan |-> scans[scanId]]
                   ELSE ScanNotFound
    /\ UNCHANGED <<now, scans, scanQueue, activeScans, isScanning,
                   scanDurations, runs, stored, crawlVars, scoreVars, auditVars>>

\* Most submissions accepted while statuses are queried.
MaxStatusJobs == 2

\* The ids asked for: every clock reading, and 0, which none is.
QueriedIds == 0 .. MaxClock

NextStatus ==
    \/ /\ Accepted < MaxStatusJobs
       /\ \E url \in Urls, devices \in DeviceLists : Submit(url, devices, 0)
    \/ Tick
    \/ \E r \in 1 .. MaxStatusJobs : CrawlDone(r, 1)
    \/ \E r \in 1 .. MaxStatusJobs : LaunchDone(r)
    \/ \E r \in 1 .. MaxStatusJobs : PageDone(r)
    \/ \E r \in 1 .. MaxStatusJobs : Complete(r)
    \/ \E r \in 1 .. MaxStatusJobs : Fail(r)
    \/ \E scanId \in QueriedIds : GetStatus(scanId)

SpecStatus == Init /\ [][NextStatus]_vars

\* One page under the selections a job can carry (POST /api/scan accepts any
\* non-empty array, server.ts:153): known ids, an id DEVICE_MAP does not
\* hold, both, and none (runScan's default, scanner.ts:179).
DeviceSelections ==
    {<<>>, <<"mobile">>, <<"tablet-small", "mobile">>, <<"phone">>,
     <<"phone", "desktop-normal">>}

InitViewports == InitAuditOf({SinglePage}, DeviceSelections)

NextViewports ==
    NextAuditOf(AuditEvents, {Analysis(1000, 1000, 50, 1000, <<>>)}, {0, 1},
                MaxHeard)

SpecViewports == InitViewports /\ [][NextViewports]_vars

\* ================================================================ claims
LiveRuns == {r \in DOMAIN runs : Live(runs[r])}

Terminal(status) == status \in {"COMPLETE", "FAILED"}

\* No two submissions were given the same id: every id was pushed once.
UniqueIds ==
    LET ids == [i \in 1 .. Accepted |->
                   IF i <= Len(runs) THEN runs[i].id
                   ELSE scanQueue[i - Len(runs)]]
    IN \A i, j \in 1 .. Accepted : ids[i] = ids[j] => i = j

\* C1: the jobs promoted and not yet settled are counted by activeScans, and
\* neither they nor the records in status SCANNING ever outnumber
\* MAX_CONCURRENT_SCANS.
C1_ActiveWithinCap ==
    /\ activeScans = Cardinality(LiveRuns)
    /\ activeScans <= MAX_CONCURRENT_SCANS
    /\ Cardinality({id \in DOMAIN scans : scans[id].status = "SCANNING"})
          <= MAX_CONCURRENT_SCANS

\* All slots are taken and a job waits behind them.
C1_Witness ==
    /\ UniqueIds
    /\ activeScans = MAX_CONCURRENT_SCANS
    /\ Len(scanQueue) > 0
    /\ scans[Head(scanQueue)].status = "QUEUED"

\* The steps a job's status may take.
StatusStep(from, to) ==
    \/ to = from
    \/ from = "QUEUED" /\ to = "SCANNING"
    \/ from = "SCANNING" /\ Terminal(to)

\* C2: a job's status only moves QUEUED -> SCANNING -> COMPLETE | FAILED, and
\* neither the status nor the report of a COMPLETE or FAILED job changes.
C2_StatusOnlyMovesForward ==
    [][\A id \in DOMAIN scans :
          /\ id \in DOMAIN scans'
          /\ StatusStep(scans[id].status, scans'[id].status)
          /\ Terminal(scans[id].status) => scans'[id].report = scans[id].report
      ]_vars

\* C2 where every submission got an id of its own.
C2_ForwardWithUniqueIds ==
    [][UniqueIds' =>
          \A id \in DOMAIN scans :
             /\ id \in DOMAIN scans'
             /\ StatusStep(scans[id].status, scans'[id].status)
             /\ Terminal(scans[id].status) => scans'[id].report = scans[id].report
      ]_vars

\* A step is an accepted submission iff one more id has been pushed.
SubmissionStep == Accepted' = Accepted + 1

\* The submitted id was appended at the tail and a scheduling pass ran right
\* after: what it promoted left the head of the queue in order, and it stopped
\* only when no slot was free or the queue was empty.
TailThenPass ==
    LET q == Append(scanQueue, response'.scanId)
        k == Len(runs') - Len(runs)
    IN /\ k \in 0 .. Len(q)
       /\ scanQueue' = SubSeq(q, k + 1, Len(q))
       /\ \A i \in 1 .. k : runs'[Len(runs) + i].id = q[i]
       /\ activeScans' = activeScans + k
       /\ ~(activeScans' < MAX_CONCURRENT_SCANS /\ Len(scanQueue') > 0)

\* A record is in status SCANNING only if a scheduling pass promoted its id.
ScanningWasPromoted ==
    \A id \in DOMAIN scans :
       scans[id].status = "SCANNING" => \E r \in DOMAIN runs : runs[r].id = id

ThreeSubmitted ==
    /\ Len(runs) = 1
    /\ Live(runs[1])
    /\ Len(scanQueue) = 2
    /\ UniqueIds

Queued(id, position) ==
    scans[id].status = "QUEUED" /\ scans[id].queuePosition = position

JobIds == 1 .. (MaxJobs + 1)

\* The call of runScan behind run r settles in this step.
SettleStep(r) == r \in DOMAIN runs /\ Live(runs[r]) /\ ~Live(runs'[r])

\* A scheduling pass ran on the queue as it was: what it promoted left the head
\* of the queue in order, and it stopped only when no slot was free or the
\* queue was empty.
PassAfterSettle ==
    LET k == Len(runs') - Len(runs)
    IN /\ k \in 0 .. Len(scanQueue)
       /\ scanQueue' = SubSeq(scanQueue, k + 1, Len(scanQueue))
       /\ \A i \in 1 .. k : runs'[Len(runs) + i].id = scanQueue[i]
       /\ activeScans' = activeScans - 1 + k
       /\ ~(activeScans' < MAX_CONCURRENT_SCANS /\ Len(scanQueue') > 0)

\* C5: every settlement, resolved or rejected, takes the active count down by
\* exactly one and runs a scheduling pass; and, every running job settling in
\* the end, every QUEUED job is promoted to SCANNING in the end.
C5_SettleFreesSlotAndPromotes ==
    /\ [][\A r \in 1 .. MaxJobs : SettleStep(r) => PassAfterSettle]_vars
    /\ \A id \in JobIds :
          (id \in DOMAIN scans /\ scans[id].status = "QUEUED")
             ~> (id \in DOMAIN scans /\ scans[id].status = "SCANNING")

\* A job that had to wait was promoted by the pass after a settlement.
C5_Witness ==
    /\ UniqueIds
    /\ Len(runs) > MAX_CONCURRENT_SCANS
    /\ \E r \in DOMAIN runs : runs[r].pc = "rejected"
    /\ \E r \in DOMAIN runs : runs[r].pc = "resolved"
    /\ Live(runs[Len(runs)])
    /\ scans[runs[Len(runs)].id].status = "SCANNING"

\* C6: every job that is SCANNING is COMPLETE or FAILED in the end, every
\* awaited browser operation returning or throwing in the end.
C6_ScanningSettles ==
    \A id \in JobIds :
       (id \in DOMAIN scans /\ scans[id].status = "SCANNING")
          ~> (id \in DOMAIN scans /\ Terminal(scans[id].status))

\* Every run has settled, one job COMPLETE and one FAILED among them.
C6_Witness ==
    /\ Len(runs) > 1
    /\ \A r \in DOMAIN runs : ~Live(runs[r])
    /\ \E id \in DOMAIN scans : scans[id].status = "COMPLETE"
    /\ \E id \in DOMAIN scans : scans[id].status = "FAILED"

\* What a failure of another job may do to job j: nothing, or, j being
\* QUEUED, what the scheduling pass does: promote it, or give it a new queue
\* position and estimate.
UntouchedOrScheduled(j) ==
    \/ scans'[j] = scans[j]
    \/ /\ scans[j].status = "QUEUED"
       /\ \/ /\ scans'[j].status = "QUEUED"
             /\ scans'[j].progress = scans[j].progress
             /\ scans'[j].message = scans[j].message
             /\ scans'[j].report = scans[j].report
          \/ /\ scans'[j].status = "SCANNING"
             /\ j = Head(scanQueue)
             /\ runs'[Len(runs')].id = j

FailureStep(r) == r \in DOMAIN runs /\ Live(runs[r]) /\ runs'[r].pc = "rejected"

FailureIsContained(r) ==
    /\ scans'[runs[r].id].status = "FAILED"
    /\ scans'[runs[r].id].message = "Scan failed due to server error."
    /\ \A j \in DOMAIN scans \ {runs[r].id} : UntouchedOrScheduled(j)
    /\ PassAfterSettle

\* C7: when a job's pipeline throws, that job and no other becomes FAILED
\* with the generic message, no other job's status, progress, message or
\* report changes, and the pass that follows still promotes the queued jobs.
C7_FailureIsContained ==
    [][\A r \in 1 .. MaxJobs : FailureStep(r) => FailureIsContained(r)]_vars

\* C7 where every submission got an id of its own.
C7_ContainedWithUniqueIds ==
    [][\A r \in 1 .. MaxJobs :
          FailureStep(r) /\ UniqueIds => FailureIsContained(r)]_vars

\* C8: a job has a report iff it is COMPLETE; a FAILED job's report is null
\* and a COMPLETE job's progress is 100.
C8_ReportIffComplete ==
    \A id \in DOMAIN scans :
       /\ scans[id].report # Null <=> scans[id].status = "COMPLETE"
       /\ scans[id].status = "COMPLETE" => scans[id].progress = 100

\* C8 where every submission got an id of its own.
C8_ReportWithUniqueIds ==
    UniqueIds => C8_ReportIffComplete

\* C10: the page limit chosen at submission bounds the job's crawl: neither
\* the pages crawled for a job nor the PageReports of its report outnumber
\* the job's pageLimit.
C10_PageLimitBoundsCrawl ==
    /\ \A r \in DOMAIN runs :
          Live(runs[r]) => runs[r].pages <= scans[runs[r].id].pageLimit
    /\ \A id \in DOMAIN scans :
          scans[id].report # Null =>
             Len(scans[id].report.pages) <= scans[id].pageLimit

\* C9: the sequence crawlSite returns has at most maxPages entries (and the
\* Map never holds more while the loop runs).
C9_OutputWithinPageLimit ==
    crawl.pc \in {"loop", "returned"} => Len(visited) <= crawl.maxPages

\* A crawl has returned as many pages as its limit allows and left discovered
\* links unvisited.
C9_Witness ==
    /\ crawl.pc = "returned"
    /\ crawl.maxPages > 1
    /\ Len(visited) = crawl.maxPages
    /\ \E i \in DOMAIN crawlQueue : ~VisitedHas(visited, crawlQueue[i].url)

\* The entries crawlSite returns, once it has returned.
Returned == crawl.pc = "returned"

\* C11: crawlSite never returns two entries whose URLs are equal once their
\* fragments are stripped.
C11_NoCanonicalDuplicates ==
    Returned =>
       \A i, j \in DOMAIN visited :
          StripFragment(visited[i].url) = StripFragment(visited[j].url) => i = j

\* C11 for the seeds that carry no fragment.
C11_NoDuplicatesPlainSeed ==
    Returned /\ crawl.startUrl.frag = "" =>
       \A i, j \in DOMAIN visited :
          StripFragment(visited[i].url) = StripFragment(visited[j].url) => i = j

\* C12: every URL crawlSite returns, has queued or has navigated to has the
\* seed's hostname.
C12_OutputOnSeedHost ==
    /\ \A i \in DOMAIN visited : visited[i].url.host = crawl.startUrl.host
    /\ \A i \in DOMAIN crawlQueue : crawlQueue[i].url.host = crawl.startUrl.host
    /\ \A i \in DOMAIN fetched : fetched[i].url.host = crawl.startUrl.host

\* A crawl returned several pages, one of which was read and links to a page
\* of another host.
C12_Witness ==
    /\ Returned
    /\ Len(visited) > 1
    /\ \E i \in DOMAIN fetched :
          /\ fetched[i].expanded
          /\ \E k \in DOMAIN site[Document(fetched[i].url)] :
                LET link == site[Document(fetched[i].url)][k]
                IN link.http /\ link.host # crawl.startUrl.host

\* C13: every URL of the output was visited at a depth of at most maxDepth,
\* the links of a page are read only if its depth is below maxDepth, and a
\* page whose links are not read queues nothing.
C13_DepthWithinLimit ==
    /\ [](/\ Len(fetched) = Len(visited)
          /\ \A i \in DOMAIN fetched :
                /\ fetched[i].url = visited[i].url
                /\ fetched[i].depth <= crawl.maxDepth
                /\ fetched[i].expanded => fetched[i].depth < crawl.maxDepth)
    /\ [][Len(fetched') > Len(fetched) /\ ~fetched'[Len(fetched')].expanded
             => crawlQueue' = Tail(crawlQueue)]_vars

\* A crawl returned a page that lies at maxDepth, below the seed: it was
\* loaded, and its links, of which it has some, were not read.
C13_Witness ==
    /\ Returned
    /\ crawl.maxDepth > 0
    /\ \E i \in DOMAIN fetched :
          /\ fetched[i].depth = crawl.maxDepth
          /\ fetched[i].ok
          /\ ~fetched[i].expanded
          /\ \E k \in DOMAIN site[Document(fetched[i].url)] :
                /\ SameHost(site[Document(fetched[i].url)][k], crawl.domain)
                /\ ~VisitedHas(visited, site[Document(fetched[i].url)][k])

PageA == Url(TRUE, "site", "/a", "")
PageB == Url(TRUE, "site", "/b", "")

\* The crawl of the two-page cycle, as far as it has shown: seed a, max depth
\* 3, page limit 20, a links to b and b to a, and every navigation succeeded.
CycleAB ==
    /\ crawl.startUrl = PageA
    /\ crawl.maxDepth = 3
    /\ crawl.maxPages = 20
    /\ \A doc \in DOMAIN site :
          \/ doc = Document(PageA) /\ site[doc] = <<PageB>>
          \/ doc = Document(PageB) /\ site[doc] = <<PageA>>
    /\ \A i \in DOMAIN fetched : fetched[i].ok

\* C14: on the two-page cycle with max depth 3 and page limit 20, crawlSite
\* returns, and what it returns is a without referrer, then b with referrer a.
C14_CycleOfTwoPages ==
    /\ [](CycleAB /\ Returned =>
             visited = <<[url |-> PageA, referrer |-> NoReferrer],
                         [url |-> PageB, referrer |-> PageA]>>)
    /\ CycleAB ~> (Returned \/ ~CycleAB)

\* The crawl of the cycle has returned, having loaded both pages.
C14_Witness ==
    /\ CycleAB
    /\ Returned
    /\ DOMAIN site = {Document(PageA), Document(PageB)}
    /\ Len(fetched) = 2

\* C15: crawlSite returns in the end, and when it returns the queue is empty
\* or the number of visited URLs has reached the page limit.
C15_CrawlTerminates ==
    /\ <>Returned
    /\ [](Returned => Len(crawlQueue) = 0 \/ Len(visited) >= crawl.maxPages)

\* A crawl over a cyclic graph returned with its queue empty and the page
\* limit not reached: a page that was read links back to a visited page.
C15_Witness ==
    /\ Returned
    /\ Len(crawlQueue) = 0
    /\ Len(visited) > 1
    /\ Len(visited) < crawl.maxPages
    /\ \E i, j \in DOMAIN fetched :
          /\ i < j
          /\ fetched[j].expanded
          /\ \E k \in DOMAIN site[Document(fetched[j].url)] :
                site[Document(fetched[j].url)][k] = fetched[i].url

\* This step is a navigation that fails.
NavigationFails ==
    Len(fetched') = Len(fetched) + 1 /\ ~fetched'[Len(fetched')].ok

\* C16: a URL whose navigation fails enters the output with the referrer it
\* was queued with and queues no link; no entry ever leaves the output; and no
\* URL is navigated to twice.
C16_FailedUrlKeptNotRetried ==
    /\ [][NavigationFails =>
             /\ visited' = Append(visited,
                   [url |-> Head(crawlQueue).url,
                    referrer |-> Head(crawlQueue).referrer])
             /\ fetched'[Len(fetched')].url = Head(crawlQueue).url
             /\ crawlQueue' = Tail(crawlQueue)]_vars
    /\ [][\A i \in DOMAIN visited :
             i \in DOMAIN visited' /\ visited'[i] = visited[i]]_vars
    /\ [](\A i, j \in DOMAIN fetched :
             fetched[i].url = fetched[j].url => i = j)

\* A crawl returned a URL, found on another page, whose navigation failed, and
\* a page read after the failure links to that URL again.
C16_Witness ==
    /\ Returned
    /\ \E i, j \in DOMAIN fetched :
          /\ i < j
          /\ ~fetched[i].ok
          /\ visited[i].url = fetched[i].url
          /\ visited[i].referrer # NoReferrer
          /\ fetched[j].expanded
          /\ \E k \in DOMAIN site[Document(fetched[j].url)] :
                site[Document(fetched[j].url)][k] = fetched[i].url

\* The discoveries made on one page: each link of the seed's host, in the
\* order of the page, gives the URL it stands for and the page it was found on.
RECURSIVE DiscoveriesOn(_, _)
DiscoveriesOn(links, from) ==
    IF links = <<>> THEN <<>>
    ELSE (IF SameHost(Head(links), crawl.domain)
          THEN <<[url |-> StripFragment(Head(links)), from |-> from]>>
          ELSE <<>>) \o DiscoveriesOn(Tail(links), from)

\* The discoveries of the first n navigations, in breadth-first order.
RECURSIVE DiscoveriesUpTo(_)
DiscoveriesUpTo(n) ==
    IF n = 0 THEN <<>>
    ELSE DiscoveriesUpTo(n - 1) \o
         (IF fetched[n].expanded
          THEN DiscoveriesOn(HttpLinks(site[Document(fetched[n].url)]),
                             fetched[n].url)
          ELSE <<>>)

\* The page on which u was discovered first.
FirstDiscoverer(u) ==
    LET d == DiscoveriesUpTo(Len(fetched))
        found == {k \in DOMAIN d : d[k].url = u}
    IN IF found = {} THEN NoReferrer
       ELSE d[CHOOSE k \in found : \A l \in found : k <= l].from

\* The referrer of every output URL is the page it was discovered on first,
\* and null for the seed.
ReferrerIsFirstDiscoverer ==
    \A j \in DOMAIN visited :
       visited[j].referrer =
          IF j = 1 THEN NoReferrer ELSE FirstDiscoverer(visited[j].url)

\* A URL is in visited from the step of its navigation on, whether the
\* navigation succeeds or fails, and the output is in the order of the visits.
VisitedWhenFetched ==
    /\ Len(visited) = Len(fetched)
    /\ \A i \in DOMAIN fetched : visited[i].url = fetched[i].url

\* No step changes the referrer recorded for a URL.
ReferrerKept ==
    \A i \in DOMAIN visited :
       i \in DOMAIN visited' /\ visited'[i].referrer = visited[i].referrer

\* C17: a URL is in visited before it is fetched, its recorded referrer is the
\* page it was first discovered on in breadth-first order (null for the seed)
\* and is never overwritten, and the output is in first-visit order.
C17_FirstReferrerInVisitOrder ==
    /\ []VisitedWhenFetched
    /\ []ReferrerIsFirstDiscoverer
    /\ [][ReferrerKept]_vars

\* C17 for the seeds that carry no fragment.
C17_FirstReferrerPlainSeed ==
    /\ []VisitedWhenFetched
    /\ [](crawl.startUrl.frag = "" => ReferrerIsFirstDiscoverer)
    /\ [][ReferrerKept]_vars

Scored == score # NoScore

CategorySet == {Categories[i] : i \in DOMAIN Categories}

\* C18: each of the six category scores calculateScore returns lies in
\* 0 .. 100.
C18_CategoryScoresInRange ==
    Scored => \A c \in CategorySet : score.categories[c] \in 0 .. 100

\* The sum of the penalties of the issues of category c in list.
RECURSIVE PenaltySum(_, _)
PenaltySum(list, c) ==
    IF list = <<>> THEN 0
    ELSE (IF Head(list).category = c THEN PENALTY[Head(list).severity] ELSE 0)
         + PenaltySum(Tail(list), c)

\* A list whose penalties in one category exceed 100 was scored: that
\* category stands at 0 and another one in between.
C18_Witness ==
    /\ Scored
    /\ PenaltySum(issues, "Performance") > 100
    /\ score.categories["Performance"] = 0
    /\ score.categories["SEO"] \in 1 .. 99

\* C19: calculateScore returns the same six category scores and the same
\* overall score for every permutation of an issue list.
C19_OrderIndependent ==
    Scored =>
       \A f \in Permutations(DOMAIN issues) :
          LET permuted == [i \in DOMAIN issues |-> issues[f[i]]]
          IN calculateScore(permuted) = [score EXCEPT !.details = permuted]

\* A list was scored that mixes two categories and two severities, is not in
\* the order of its categories, and whose penalties in one category pass 100
\* before its last issue.
C19_Witness ==
    /\ Scored
    /\ Len(issues) = MaxDeepIssues
    /\ PenaltySum(issues, "Performance") > 100
    /\ issues[1].category = "SEO"
    /\ issues[2].category = "Performance"
    /\ issues[Len(issues)].severity = "Major"
    /\ issues[2].severity = "Critical"

\* The weights .25/.20/.15/.15/.15/.10 in hundredths.
WeightPercent ==
    ("Performance" :> 25) @@ ("Responsiveness & Layout" :> 20) @@
    ("Accessibility" :> 15) @@ ("SEO" :> 15) @@
    ("Errors & Reliability" :> 15) @@ ("Best Practices" :> 10)

\* The sum over the first n categories of score x weight, in hundredths.
RECURSIVE WeightedHundredths(_, _)
WeightedHundredths(scores, n) ==
    IF n = 0 THEN 0
    ELSE WeightedHundredths(scores, n - 1)
         + scores[Categories[n]] * WeightPercent[Categories[n]]

\* Each category score is max(0, 100 - sum of the penalties of its issues).
CategoryScoresByFormula ==
    \A c \in CategorySet :
       score.categories[c] = Max(0, 100 - PenaltySum(issues, c))

\* The two scenarios: no issue gives 100 everywhere, a single SEO/Minor
\* issue gives SEO 95 and overall 99.
ScoringScenarios ==
    /\ issues = <<>> =>
          /\ \A c \in CategorySet : score.categories[c] = 100
          /\ score.overallScore = 100
    /\ issues = <<Issue("SEO", "Minor")>> =>
          /\ score.categories["SEO"] = 95
          /\ score.overallScore = 99

\* C20: each category score is max(0, 100 - sum of the penalties of the
\* category's issues), and the overall score is the sum over the categories of
\* score x weight, rounded; no issue gives 100 everywhere and a single
\* SEO/Minor issue gives SEO 95 and overall 99.
C20_ScoresByFormula ==
    Scored =>
       /\ CategoryScoresByFormula
       /\ score.overallScore =
             MathRound(WeightedHundredths(score.categories, Len(Categories)), 100)
       /\ ScoringScenarios

\* C20 without the overall score of lists other than the two scenarios'.
C20_CategoriesAndScenarios ==
    Scored => CategoryScoresByFormula /\ ScoringScenarios

\* The sum of the first n weights as the doubles they are, added in the order
\* of their declaration.
RECURSIVE WeightsSum(_)
WeightsSum(n) ==
    IF n = 0 THEN <<0, 0, 0>>
    ELSE FloatPlus(WeightsSum(n - 1), WEIGHTS[Categories[n]])

\* 1.0 as a count of 2^-56.
One == <<2 ^ 14, 0, 0>>

\* C21: the six weights sum to exactly 1.0, and the overall score
\* calculateScore returns is an integer in 0 .. 100.
C21_WeightsSumToOne ==
    /\ WeightsSum(Len(Categories)) = One
    /\ Scored => score.overallScore \in 0 .. 100

\* A list that takes every category to 0 was scored, and its overall score
\* is 0.
C21_Witness ==
    /\ Scored
    /\ \A c \in CategorySet : score.categories[c] = 0
    /\ score.overallScore = 0

\* runScan has resolved: the report below is the one of the COMPLETE job.
Resolved == scanReport # Null

\* The page's issues, in the order of the list, are the list's issues of the
\* page's URL.
HoldsItsIssues(p, list) == p.issues = IssuesOf(list, p.url)

\* C22: in the final report of a COMPLETE job an issue of the job's list is
\* in a PageReport's issues if and only if its affectedUrl is the report's
\* url: every PageReport holds all the issues of its URL, those pushed by
\* listeners at any await point before the page is closed included, and no
\* issue of another URL.
C22_ReportsHoldIssuesOfTheirUrl ==
    Resolved =>
        \A k \in DOMAIN scanReport.pages :
            HoldsItsIssues(scanReport.pages[k], scanReport.details)

\* A listener of the page being audited was told of e in this step.
Heard(e) == audit'.heard = audit.heard + 1 /\ event' = e

\* The one issue a main-document 404 is to give.
PageNotFound(pageObj) ==
    ScanIssue("Errors & Reliability", "Critical", "Page Not Found",
              NotFoundDescription(pageObj.referrer), pageObj.url)

\* C23: a main-document response with status 404 produces exactly one issue,
\* Errors & Reliability / Critical 'Page Not Found', naming the referrer when
\* the crawler recorded one, and no 'Broken Resource' or 'Server Error' issue.
C23_MainDocument404 ==
    [][\A e \in Responses :
          Heard(e) /\ e.navigation /\ e.status = 404
              => scanIssues' = Append(scanIssues, PageNotFound(PageObj))]_vars

\* The same for the responses whose URL is, character by character, the URL
\* the page was crawled under.
C23_NotFoundWhenUrlsAgree ==
    [][\A e \in Responses :
          Heard(e) /\ e.url = PageObj.url /\ e.status = 404
              => scanIssues' = Append(scanIssues, PageNotFound(PageObj))]_vars

\* The Performance issues of a list.
PerformanceIssues(list) == SelectSeq(list, LAMBDA i : i.category = "Performance")

\* How many issues of the list have the severity, title and URL given.
Emitted(list, severity, title, url) ==
    Len(SelectSeq(list, LAMBDA i : /\ i.severity = severity
                                   /\ i.title = title
                                   /\ i.affectedUrl = url))

OneIff(condition) == IF condition THEN 1 ELSE 0

\* The issues pushed in this step.
Pushed == SubSeq(scanIssues', Len(scanIssues) + 1, Len(scanIssues'))

\* The Performance issues the metrics m call for, and no other.
PerformanceByThresholds(list, m, url) ==
    LET lcp == Emitted(list, "Minor", "Slow Largest Contentful Paint (LCP)", url)
        fcp == Emitted(list, "Suggestion", "Slow First Contentful Paint (FCP)", url)
        cls == Emitted(list, "Minor", "Cumulative Layout Shift (CLS)", url)
        slow == Emitted(list, "Suggestion", "Slow Load Time", url)
    IN /\ lcp = OneIff(m.lcp > 2500)
       /\ fcp = OneIff(m.fcp > 1800)
       /\ cls = OneIff(m.cls > 100)
       /\ slow = OneIff(m.lcp = 0 /\ m.duration > 5000)
       /\ Len(list) = lcp + fcp + cls + slow
       /\ lcp + slow <= 1
       /\ m.lcp = 3000 /\ m.fcp = 1000 /\ m.cls = 50 => lcp = 1 /\ Len(list) = 1

\* C24: after a successful navigation the Performance issues of a page are
\* exactly one Minor issue iff LCP > 2500 ms, one Suggestion iff FCP > 1800 ms,
\* one Minor iff CLS > 0.1 and one Suggestion 'Slow Load Time' iff LCP was
\* never captured and the navigation took more than 5000 ms; LCP = 3000,
\* FCP = 1000, CLS = 0.05 gives the LCP issue alone, the LCP issue and the
\* fallback never come together, and no other step of the audit pushes a
\* Performance issue.
C24_PerformanceByThresholds ==
    [][IF audit.pc = "evaluate" /\ event'.kind = "analysis"
       THEN PerformanceByThresholds(PerformanceIssues(Pushed), event'.metrics,
                                    PageObj.url)
       ELSE PerformanceIssues(scanIssues') = PerformanceIssues(scanIssues)]_vars

\* The scenario of the claim has been evaluated: LCP = 3000, FCP = 1000,
\* CLS = 0.05, and the list holds one Performance issue, the LCP one.
C24_Witness ==
    /\ event # Null /\ event.kind = "analysis"
    /\ event.metrics.lcp = 3000 /\ event.metrics.fcp = 1000
    /\ event.metrics.cls = 50 /\ event.metrics.duration = 5001
    /\ Len(PerformanceIssues(scanIssues)) = 1
    /\ PerformanceIssues(scanIssues)[1].title = "Slow Largest Contentful Paint (LCP)"

ScanFailed(url) ==
    ScanIssue("Errors & Reliability", "Critical", "Scan Failed",
              Description("Could not load page for scanning", NoReferrer), url)

\* The titles the listeners give their issues.
ListenerTitles ==
    {"Console Error", "Console Warning", "Uncaught Exception", "Page Not Found",
     "Server Error", "Broken Resource", "Failed Request"}

Titles(list) == {list[i].title : i \in DOMAIN list}

\* page.goto of the page the loop is at threw in this step.
NavigationFailed == audit.pc = "goto" /\ event'.kind = "gotoThrew"

\* The last PageReport pushed is that of a page whose audit was given up.
GivenUp ==
    /\ pageReports # <<>>
    /\ "Scan Failed" \in Titles(pageReports[Len(pageReports)].issues)

\* What the step of a failing navigation is to do for the page at url.
FailureRecorded(url) ==
    /\ scanIssues' = Append(scanIssues, ScanFailed(url))
    /\ Emitted(IssuesOf(scanIssues', url), "Critical", "Scan Failed", url) = 1
    /\ Titles(IssuesOf(scanIssues', url)) \subseteq ListenerTitles \cup {"Scan Failed"}
    /\ pageReports' = Append(pageReports, pageReports'[Len(pageReports')])
    /\ LET p == pageReports'[Len(pageReports')]
       IN /\ p.url = url
          /\ p.issues = IssuesOf(scanIssues', url)
          /\ p.metrics = NoMetrics
    /\ audit'.pc = "pageClose"

\* What follows for a page given up, while and after it is closed: only
\* listeners add issues, and unless page.close() itself throws the page is
\* closed and the loop goes on with the next page or ends the job normally.
JobContinues(url) ==
    /\ Titles(Pushed) \subseteq ListenerTitles
    /\ UNCHANGED pageReports
    /\ audit'.pc \notin {"pageClose", "rejected"} =>
          /\ url \notin audit'.open
          /\ audit'.pagesProcessed = audit.pagesProcessed + 1
          /\ audit'.pc = IF audit'.pagesProcessed < Len(pages)
                         THEN "newPage" ELSE "browserClose"

\* C25: when the navigation to a page fails, exactly one Errors & Reliability
\* / Critical 'Scan Failed' issue is recorded for the page, no evaluation,
\* metric threshold or viewport check runs for it, its PageReport is pushed
\* with that issue and the issues the listeners collected, the page is closed
\* and the job goes on with the next crawled page.
C25_NavigationFailure ==
    [][/\ NavigationFailed => FailureRecorded(PageObj.url)
       /\ audit.pc = "pageClose" /\ GivenUp => JobContinues(PageObj.url)]_vars

\* The first page could not be loaded after a listener had collected an
\* issue: its report holds both, it is closed, and the second page is open.
C25_Witness ==
    /\ audit.pc = "goto" /\ audit.pagesProcessed = 1
    /\ audit.open = {pages[2].url}
    /\ Len(pageReports) = 1
    /\ Len(pageReports[1].issues) = 2
    /\ pageReports[1].issues[2] = ScanFailed(pages[1].url)

\* From this state to the next the progress of no promoted job goes down.
ProgressKept ==
    \A id \in DOMAIN scans :
       /\ id \in DOMAIN scans'
       /\ scans[id].status # "QUEUED" => scans'[id].progress >= scans[id].progress

\* C26: for every job the progress values written to its state (each of them
\* emitted as scan:progress with the same value) never decrease from its
\* promotion to its settlement, whatever the number of crawled pages.
C26_ProgressNeverDecreases == [][ProgressKept]_vars

\* C26 where every submission got an id of its own.
C26_MonotoneWithUniqueIds == [][UniqueIds' => ProgressKept]_vars

\* The run behind r passed from one await to the next in this step.
Passed(r, from, to) ==
    /\ r \in DOMAIN runs
    /\ runs'[r] # runs[r]
    /\ runs[r].pc \in from
    /\ runs'[r].pc = to

\* The progress the claim gives for the page with index k of n.
StatedProgress(k, n) == 20 + ((70 * k) \div n)

\* The progress the job of run r shows after the step.
ProgressOf(r) == scans'[runs'[r].id].progress

\* C27: before the page with index k (0-based) of n crawled pages is audited
\* the progress reported is 20 + floor(70 k / n), a value from 20 to 90; a
\* promoted job has reported 5 and 10 when it starts to crawl, reports 20 when
\* the crawl is done, and 100 is reported with COMPLETE only.
C27_ProgressValues ==
    /\ \A n \in 1 .. DefaultMaxPages : \A k \in 0 .. (n - 1) :
          /\ PageProgress(k, n) = StatedProgress(k, n)
          /\ PageProgress(k, n) \in 20 .. 90
    /\ [][\A r \in DOMAIN runs' :
             /\ r \notin DOMAIN runs => ProgressOf(r) = 10
             /\ Passed(r, {"crawl"}, "launch") => ProgressOf(r) = 20
             /\ Passed(r, {"launch", "page"}, "page") =>
                   ProgressOf(r) = StatedProgress(runs'[r].pagesProcessed,
                                                  runs'[r].pages)
          ]_vars
    /\ [](\A id \in DOMAIN scans :
             scans[id].progress = 100 => scans[id].status = "COMPLETE")

\* C27 where every submission got an id of its own.
C27_ValuesWithUniqueIds ==
    /\ \A n \in 1 .. DefaultMaxPages : \A k \in 0 .. (n - 1) :
          /\ PageProgress(k, n) = StatedProgress(k, n)
          /\ PageProgress(k, n) \in 20 .. 90
    /\ [][UniqueIds' =>
          \A r \in DOMAIN runs' :
             /\ r \notin DOMAIN runs => ProgressOf(r) = 10
             /\ Passed(r, {"crawl"}, "launch") => ProgressOf(r) = 20
             /\ Passed(r, {"launch", "page"}, "page") =>
                   ProgressOf(r) = StatedProgress(runs'[r].pagesProcessed,
                                                  runs'[r].pages)
             /\ Passed(r, {"close"}, "resolved") => ProgressOf(r) = 100
          ]_vars
    /\ [](UniqueIds =>
            \A id \in DOMAIN scans :
               scans[id].progress = 100 => scans[id].status = "COMPLETE")

\* C28: within one job the pages are audited one at a time in the order of
\* the crawl's output: at most one page is open, the page with index k + 1 is
\* opened only when the PageReports of the pages before it are pushed and
\* those pages closed, and the final report has exactly one PageReport per
\* crawled page, in crawl order.
C28_OnePageAtATime ==
    /\ Cardinality(audit.open) <= 1
    /\ audit.open # {} =>
          /\ audit.open = {PageObj.url}
          /\ Len(pageReports) \in {audit.pagesProcessed, audit.pagesProcessed + 1}
    /\ audit.open = {} => Len(pageReports) = audit.pagesProcessed
    /\ \A k \in DOMAIN pageReports : pageReports[k].url = pages[k].url
    /\ Resolved =>
          /\ Len(scanReport.pages) = Len(pages)
          /\ \A k \in DOMAIN pages : scanReport.pages[k].url = pages[k].url

\* Both pages of a site have been audited and the job's report made.
C28_Witness ==
    /\ Resolved
    /\ Len(pages) = 2
    /\ Len(scanReport.pages) = 2
    /\ audit.open = {}

\* The last n elements of a sequence, all of it if it is shorter.
LastN(s, n) == SubSeq(s, Max(1, Len(s) - n + 1), Len(s))

\* The run behind r completed in this step.
Completed(r) == Passed(r, {"close"}, "resolved")

\* C29: the duration buffer never holds more than 10 samples; the completion
\* of a job appends its duration and the buffer keeps the 10 most recent in
\* completion order, and no other step, the failure of a job in particular,
\* changes the buffer.
C29_DurationBuffer ==
    /\ [](Len(scanDurations) <= MAX_DURATION_SAMPLES)
    /\ [][IF \E r \in DOMAIN runs : Completed(r)
          THEN \E r \in DOMAIN runs :
                  /\ Completed(r)
                  /\ scanDurations' =
                        LastN(Append(scanDurations, now - runs[r].start),
                              MAX_DURATION_SAMPLES)
          ELSE scanDurations' = scanDurations]_vars

\* With the buffer full, a job has failed and another has completed: the
\* oldest sample is gone and the newest is the duration of the completed job.
C29_Witness ==
    /\ Len(scanDurations) = MAX_DURATION_SAMPLES
    /\ scanDurations[1] = EarlierDuration(2)
    /\ scanDurations[MAX_DURATION_SAMPLES] < EarlierDuration(1)
    /\ \E r \in DOMAIN runs : runs[r].pc = "rejected"


\* ---------------------------------------------------------------- C30
\* round(position x avg / (cap x 1000)), avg the mean of the buffer or
\* 60000 ms for an empty buffer: the nearest integer, a half going up.
StatedEstimate(position, durations) ==
    IF Len(durations) = 0
    THEN MathRound(position * 60000, MAX_CONCURRENT_SCANS * 1000)
    ELSE MathRound(position * SumSeq(durations),
                   Len(durations) * MAX_CONCURRENT_SCANS * 1000)

StillQueued ==
    {i \in 1 .. Len(scanQueue) :
        scanQueue[i] \in DOMAIN scans /\ scans[scanQueue[i]].status = "QUEUED"}

\* A scheduling pass has started a job.
Promotes == Len(runs') > Len(runs)

\* C30: the estimated wait stored for a queued job is
\* round(position x avg / (cap x 1000)) seconds, for the position stored
\* with it and the mean avg of the duration buffer (60000 ms for an empty
\* buffer); and a step that promotes a job leaves every job still queued
\* with the position of its place in the queue.
C30_EstimatedWait ==
    /\ [](\A i \in StillQueued :
             scans[scanQueue[i]].estimatedWaitTime =
                 StatedEstimate(scans[scanQueue[i]].queuePosition,
                                scanDurations))
    /\ [][Promotes =>
             \A i \in StillQueued' :
                 scans'[scanQueue'[i]].queuePosition = QueuePositionAt(i - 1)]_vars

\* What the code keeps: the same quotient, computed in doubles, and the
\* positions recomputed on every promoting pass.
C30_EstimateInDoubles ==
    /\ [](\A i \in StillQueued :
             scans[scanQueue[i]].estimatedWaitTime =
                 EstimatedWait(scans[scanQueue[i]].queuePosition,
                               scanDurations, MAX_CONCURRENT_SCANS))
    /\ [][Promotes =>
             \A i \in StillQueued' :
                 scans'[scanQueue'[i]].queuePosition = QueuePositionAt(i - 1)]_vars

\* A job is queued at position 7 behind a buffer whose mean is no double.
C30_Witness ==
    \E i \in StillQueued :
        /\ scans[scanQueue[i]].queuePosition = 7
        /\ scanDurations = PastDurations


\* ---------------------------------------------------------------- C31
\* The ids given to the accepted submissions so far.
SubmittedIds ==
    {runs[r].id : r \in DOMAIN runs} \cup {scanQueue[i] : i \in DOMAIN scanQueue}

\* Records are kept: none is removed, and that of a settled job stays as
\* it is.
RecordsKept ==
    \A id \in DOMAIN scans :
       /\ id \in DOMAIN scans'
       /\ Terminal(scans[id].status) => scans'[id] = scans[id]

\* A query answers not-found exactly for the ids no submission was given,
\* and with the stored record otherwise.
QueryAnswered ==
    \A id \in QueriedIds :
       GetStatus(id) =>
          /\ response'.code = 404 <=> id \notin SubmittedIds
          /\ response'.code = 200 => response'.scan = scans[id]

\* C31: a query for an id that was never submitted is answered not-found;
\* every accepted submission has a record of its own, no record is ever
\* removed, and the record of a COMPLETE or FAILED job never changes again.
C31_RecordsStayQueryable ==
    /\ [](Cardinality(DOMAIN scans) = Accepted)
    /\ [][RecordsKept /\ QueryAnswered]_vars

\* C31 where every submission got an id of its own.
C31_QueryableWithUniqueIds ==
    /\ [](UniqueIds => Cardinality(DOMAIN scans) = Accepted)
    /\ [][UniqueIds' => RecordsKept /\ QueryAnswered]_vars


\* ---------------------------------------------------------------- C32
\* The presets the selected ids name, in order.
RECURSIVE Presets(_)
Presets(selectedDevices) ==
    IF selectedDevices = <<>> THEN <<>>
    ELSE (IF Head(selectedDevices) \in DOMAIN DEVICE_MAP
          THEN <<DEVICE_MAP[Head(selectedDevices)]>> ELSE <<>>)
         \o Presets(Tail(selectedDevices))

\* The viewports to check: the presets named, or Mobile, Tablet and Desktop
\* when the selection names none.
StatedViewports(selectedDevices) ==
    IF Presets(selectedDevices) # <<>> THEN Presets(selectedDevices)
    ELSE <<[name |-> "Mobile", width |-> 390, height |-> 844],
           [name |-> "Tablet", width |-> 768, height |-> 1024],
           [name |-> "Desktop", width |-> 1440, height |-> 900]>>

HorizontalOverflow(bp, url) ==
    ScanIssue("Responsiveness & Layout", "Major", "Horizontal Overflow",
              Description(bp.name, NoReferrer), url)

\* The page was loaded and analysed.
Analysed == audit.pc = "evaluate" /\ event'.kind = "analysis"

\* A viewport was checked.
Checked == audit.pc = "viewport" /\ event'.kind = "viewport"

\* The step goes on to the n-th viewport.
GoesOnTo(n) == audit'.pc = "viewport" /\ audit'.bp = n

\* C32: a page that was loaded and analysed is checked against the viewports
\* the selected ids name, in order, or against Mobile, Tablet and Desktop
\* when they name none: at least one; each check pushes one Responsiveness
\* & Layout / Major 'Horizontal Overflow' issue naming the viewport if the
\* scroll width exceeds the client width, and nothing otherwise.
C32_ViewportsChecked ==
    [][LET stated == StatedViewports(audit.selectedDevices)
       IN /\ Analysed => GoesOnTo(1)
          /\ Checked =>
                /\ audit.bp <= Len(stated)
                /\ event'.clientWidth = stated[audit.bp].width
                /\ scanIssues' =
                      IF event'.scrollWidth > event'.clientWidth
                      THEN Append(scanIssues,
                                  HorizontalOverflow(stated[audit.bp],
                                                     PageObj.url))
                      ELSE scanIssues
                /\ IF audit.bp < Len(stated) THEN GoesOnTo(audit.bp + 1)
                   ELSE audit'.pc = "pageClose"
      ]_vars

\* C32 for the selections that name a preset, and for the empty one.
C32_ViewportsOfUsableSelections ==
    [][(audit.selectedDevices = <<>> \/ Presets(audit.selectedDevices) # <<>>)
       => LET stated == StatedViewports(audit.selectedDevices)
          IN /\ Analysed => GoesOnTo(1)
             /\ Checked =>
                   /\ audit.bp <= Len(stated)
                   /\ event'.clientWidth = stated[audit.bp].width
                   /\ scanIssues' =
                         IF event'.scrollWidth > event'.clientWidth
                         THEN Append(scanIssues,
                                     HorizontalOverflow(stated[audit.bp],
                                                        PageObj.url))
                         ELSE scanIssues
                   /\ IF audit.bp < Len(stated) THEN GoesOnTo(audit.bp + 1)
                      ELSE audit'.pc = "pageClose"
      ]_vars


\* ---------------------------------------------------------------- C33
\* The host is a domain of the denylist or lies under one.
HostDenied(host) ==
    \E i \in DOMAIN IGNORED_DOMAINS :
        LET domain == IGNORED_DOMAINS[i]
            h == Spell[host]
        IN \/ h = domain
           \/ /\ Len(h) > Len(domain)
              /\ SubSeq(h, Len(h) - Len(domain), Len(h)) = <<".">> \o domain

FailedRequest(request, url) ==
    ScanIssue("Errors & Reliability", "Minor", "Failed Request",
              Description(request.errorText, request.url), url)

\* C33: a failed request pushes exactly one Errors & Reliability / Minor
\* 'Failed Request' issue, and none if its host is on the denylist or the
\* failure is an abort; a failed request to any other host is reported,
\* whatever names its URL contains.
C33_FailedRequests ==
    [][\A e \in FailedRequests :
          Heard(e) =>
             scanIssues' =
                IF HostDenied(e.url.host) \/ e.errorText = "net::ERR_ABORTED"
                THEN scanIssues
                ELSE Append(scanIssues, FailedRequest(e, PageObj.url))
      ]_vars

\* What the listener does: it looks for the denylisted names anywhere in the
\* URL of the request.
C33_FailedRequestsByUrlText ==
    [][\A e \in FailedRequests :
          Heard(e) =>
             scanIssues' =
                IF Ignored(UrlText(e.url)) \/ e.errorText = "net::ERR_ABORTED"
                THEN scanIssues
                ELSE Append(scanIssues, FailedRequest(e, PageObj.url))
      ]_vars


\* ---------------------------------------------------------------- C34
\* The responses to the requests a page makes for its parts.
SubResourceErrors == {e \in Responses : ~e.navigation /\ e.status >= 400}

ServerError(resp, url) ==
    ScanIssue("Errors & Reliability", "Major", "Server Error",
              Description("returned status", resp.url), url)

BrokenResource(resp, url) ==
    ScanIssue("Errors & Reliability", "Minor", "Broken Resource",
              Description("returned 404 Not Found on", resp.url), url)

\* The step pushed one issue, Minor or Major, for the page audited.
RecordedForPage ==
    /\ Len(scanIssues') = Len(scanIssues) + 1
    /\ SubSeq(scanIssues', 1, Len(scanIssues)) = scanIssues
    /\ scanIssues'[Len(scanIssues')].severity \in {"Minor", "Major"}
    /\ scanIssues'[Len(scanIssues')].affectedUrl = PageObj.url

\* The audit is where it was: nothing was thrown, nothing closed.
AuditGoesOn ==
    /\ audit'.pc = audit.pc
    /\ audit'.browser = "open"
    /\ audit'.pagesProcessed = audit.pagesProcessed

\* C34: every response to a sub-resource with a status of 400 or more is
\* recorded as one Minor or Major issue of the page audited, a status of 500
\* or more as Major 'Server Error' and 404 as Minor 'Broken Resource', and
\* the audit of the page goes on.
C34_SubResourceErrors ==
    [][\A e \in SubResourceErrors :
          Heard(e) =>
             /\ RecordedForPage
             /\ e.status >= 500 =>
                   scanIssues' = Append(scanIssues, ServerError(e, PageObj.url))
             /\ e.status = 404 =>
                   scanIssues' = Append(scanIssues, BrokenResource(e, PageObj.url))
             /\ AuditGoesOn
      ]_vars

\* C34 for the statuses the listener has a branch for: 404 and 5xx; any
\* other status leaves the list as it is.
C34_NotFoundAndServerErrors ==
    [][\A e \in SubResourceErrors :
          Heard(e) =>
             /\ scanIssues' =
                   IF e.status >= 500
                   THEN Append(scanIssues, ServerError(e, PageObj.url))
                   ELSE IF e.status = 404
                   THEN Append(scanIssues, BrokenResource(e, PageObj.url))
                   ELSE scanIssues
             /\ AuditGoesOn
      ]_vars


\* ---------------------------------------------------------------- C35
\* C35: every accepted submission is given an id that no earlier submission
\* was given, whatever the clock reads, so that afterwards every job has a
\* record of its own and no id is in the queue twice.
C35_FreshIds ==
    [][SubmissionStep =>
          /\ response'.scanId \notin SubmittedIds
          /\ Cardinality(DOMAIN scans') = Accepted'
          /\ \A i, j \in DOMAIN scanQueue' :
                scanQueue'[i] = scanQueue'[j] => i = j
      ]_vars

\* What the code gives: the id is the reading of the clock, and differs from
\* the earlier ones where the clock has moved since.
C35_FreshIdsAtNewReadings ==
    [][SubmissionStep =>
          /\ response'.scanId = now
          /\ (\A id \in SubmittedIds : id < now) =>
                response'.scanId \notin SubmittedIds
      ]_vars


\* ---------------------------------------------------------------- C36
\* The ids of the jobs promoted, in the order of their promotion, followed
\* by those of the jobs waiting, in the order of the queue.
PromotedThenWaiting ==
    [i \in 1 .. Accepted |->
        IF i <= Len(runs) THEN runs[i].id ELSE scanQueue[i - Len(runs)]]

\* C36: jobs are promoted in the order they were submitted in: the jobs
\* promoted so far, followed by the jobs waiting, are the jobs submitted so
\* far in the order of their submission, so that a step adds to the end of
\* this sequence at most and never lets a job overtake another.
C36_PromotedInSubmissionOrder ==
    [][/\ Len(PromotedThenWaiting') >= Len(PromotedThenWaiting)
       /\ \A i \in 1 .. Len(PromotedThenWaiting) :
             PromotedThenWaiting'[i] = PromotedThenWaiting[i]
      ]_vars

\* A job was promoted from a queue in which a later one goes on waiting.
C36_Witness ==
    /\ Len(runs) > PastJobs + MAX_CONCURRENT_SCANS
    /\ Len(scanQueue) > 0
    /\ runs[Len(runs)].id = RecentId(MAX_CONCURRENT_SCANS + 1)
    /\ Head(scanQueue) = RecentId(MAX_CONCURRENT_SCANS + 2)


\* ---------------------------------------------------------------- C37
\* The step promoted the job it accepted.
PromotedAtOnce ==
    /\ Len(runs') = Len(runs) + 1
    /\ runs'[Len(runs')].id = response'.scanId
    /\ scanQueue' = scanQueue

\* C37: whenever a job waits, in the queue or with a record in status
\* QUEUED, all MAX_CONCURRENT_SCANS slots are taken; and a submission is
\* stored and answered as starting exactly if the scheduling pass that
\* follows promotes it, and as queued exactly if the pass leaves it waiting.
C37_WorkConserving ==
    /\ [](Len(scanQueue) > 0 => activeScans = MAX_CONCURRENT_SCANS)
    /\ [](\A id \in DOMAIN scans :
             scans[id].status = "QUEUED" => activeScans = MAX_CONCURRENT_SCANS)
    /\ [][SubmissionStep =>
             /\ stored'.status = "SCANNING" <=> PromotedAtOnce
             /\ response'.message = "Scan starting" <=> PromotedAtOnce
             /\ stored'.status = "QUEUED" <=>
                   scanQueue' = Append(scanQueue, response'.scanId)
             /\ response'.message = "Scan queued" <=>
                   scanQueue' = Append(scanQueue, response'.scanId)
         ]_vars

\* A submission was queued behind full slots, three others having been
\* started at once.
C37_Witness ==
    /\ activeScans = MAX_CONCURRENT_SCANS
    /\ Len(scanQueue) = 1
    /\ response.code = 200
    /\ response.message = "Scan queued"
    /\ stored.status = "QUEUED"
    /\ stored.id = Head(scanQueue)
    /\ Len(runs) = MAX_CONCURRENT_SCANS


\* ---------------------------------------------------------------- C38
WaitingIds == {id \in DOMAIN scans : scans[id].status = "QUEUED"}

PositionsInOrder ==
    /\ \A id \in WaitingIds : scans[id].queuePosition >= 1
    /\ \A i, j \in StillQueued :
          i < j => scans[scanQueue[i]].queuePosition
                      <= scans[scanQueue[j]].queuePosition

PositionsGoDown ==
    \A id \in WaitingIds :
       id \in DOMAIN scans' /\ scans'[id].status = "QUEUED"
          => scans'[id].queuePosition <= scans[id].queuePosition

\* The submission was queued, and was told the position that
\* updateQueuePositions computes for the place it was pushed to.
ToldItsPosition ==
    SubmissionStep /\ response'.message = "Scan queued"
       => /\ response'.queuePosition = QueuePositionAt(Len(scanQueue') - 1)
          /\ stored'.queuePosition = response'.queuePosition

\* C38: the position stored for a QUEUED job is at least 1, never increases
\* from one state to the next and is not smaller than that of a job ahead
\* of it in the queue; and the position returned at submission is the one
\* the recomputation assigns to the job's place in the queue.
C38_QueuePositions ==
    /\ []PositionsInOrder
    /\ [][PositionsGoDown /\ ToldItsPosition]_vars

\* C38 where every submission got an id of its own.
C38_PositionsWithUniqueIds ==
    /\ [](UniqueIds => PositionsInOrder)
    /\ [][UniqueIds' => PositionsGoDown /\ ToldItsPosition]_vars


\* ---------------------------------------------------------------- C39
\* runScan has settled: it resolved, or it rejected.
AuditSettled == audit.pc \in {"resolved", "rejected"}

\* C39: when runScan settles, resolved or rejected, the browser it launched
\* is closed.
C39_BrowserClosedWhenSettled == AuditSettled => audit.browser = "closed"

\* What the code gives: the browser is closed when runScan resolves, and is
\* open as long as pages are audited.
C39_BrowserClosedWhenResolved ==
    /\ audit.pc = "resolved" => audit.browser = "closed"
    /\ audit.pc \in {"newPage", "goto", "evaluate", "viewport", "pageClose",
                     "browserClose"} => audit.browser = "open"


\* ---------------------------------------------------------------- C40
\* What a step emits to the room of id.  scan:progress: by a promotion
\* (server.ts:108, scanner.ts:186, 193), when the crawl returns
\* (scanner.ts:195) and at the top of the loop for a page (scanner.ts:235).
ProgressEmitted(id) ==
    \/ \E r \in DOMAIN runs' \ DOMAIN runs : runs'[r].id = id
    \/ \E r \in DOMAIN runs :
          /\ runs[r].id = id
          /\ Live(runs[r])
          /\ runs'[r] # runs[r]
          /\ runs'[r].pc \in {"launch", "page"}

\* scan:complete, at the end of runScan (scanner.ts:548).
CompleteEmitted(id) ==
    \E r \in DOMAIN runs :
       runs[r].id = id /\ Live(runs[r]) /\ runs'[r].pc = "resolved"

\* scan:error, in the .catch handler (server.ts:126).
ErrorEmitted(id) ==
    \E r \in DOMAIN runs :
       runs[r].id = id /\ Live(runs[r]) /\ runs'[r].pc = "rejected"

\* A terminal event has been emitted to the room of id.
TerminalEmitted(id) == \E r \in DOMAIN runs : runs[r].id = id /\ ~Live(runs[r])

RunsEnded(id, how) == {r \in DOMAIN runs : runs[r].id = id /\ runs[r].pc = how}

\* A COMPLETE job has had one scan:complete and no scan:error, a FAILED one
\* a scan:error and no scan:complete.
TerminalEventByStatus ==
    \A id \in DOMAIN scans :
       /\ scans[id].status = "COMPLETE" =>
             /\ Cardinality(RunsEnded(id, "resolved")) = 1
             /\ RunsEnded(id, "rejected") = {}
       /\ scans[id].status = "FAILED" =>
             /\ RunsEnded(id, "resolved") = {}
             /\ RunsEnded(id, "rejected") # {}

\* The terminal event is the last one of its job and says how the job ends.
TerminalEventLast ==
    \A id \in DOMAIN scans :
       /\ TerminalEmitted(id) =>
             ~ProgressEmitted(id) /\ ~CompleteEmitted(id) /\ ~ErrorEmitted(id)
       /\ CompleteEmitted(id) => scans'[id].status = "COMPLETE"
       /\ ErrorEmitted(id) => scans'[id].status = "FAILED"

\* C40: a job that ends COMPLETE has emitted scan:complete exactly once and
\* no scan:error, a job that ends FAILED has emitted scan:error and never
\* scan:complete, and after its terminal event a job emits nothing more, no
\* scan:progress in particular.
C40_TerminalEvents ==
    /\ []TerminalEventByStatus
    /\ [][TerminalEventLast]_vars

\* C40 where every submission got an id of its own.
C40_EventsWithUniqueIds ==
    /\ [](UniqueIds => TerminalEventByStatus)
    /\ [][UniqueIds' => TerminalEventLast]_vars

====
